---- MODULE Spec2Model ----
(***************************************************************************)
(* Instagram post compliance checker: the cache store (cache-service.ts),  *)
(* the AI analysis service with its rate limiter, retry loop and fallback  *)
(* (ai-analysis-service.ts) and the rule-based analyzer                    *)
(* (analysis-service.ts).                                                  *)
(*                                                                         *)
(* Conventions.  Strings are TLA+ strings read one UTF-16 code unit at a   *)
(* time with SubSeq.  Date.now() is the variable now, in milliseconds.     *)
(* Confidence values are held in hundredths (0.7 is 70).  A SHA-256 digest *)
(* is represented by the canonical content it is computed from (the digest *)
(* is taken to be collision free).                                         *)
(***************************************************************************)
EXTENDS Integers, Sequences, FiniteSets, TLC

VARIABLES
  now,            \* Date.now()
  ticks,          \* number of clock advances taken so far
  cache,          \* CacheService.cache: the Map, in insertion order
  nextCleanup,    \* deadline of the setInterval timer of the constructor
  lastOp,         \* the last direct cache operation: what it found and returned
  requestCount,   \* module-level rate-limit counter
  lastResetTime,  \* module-level rate-limit window start
  calls,          \* one record per in-flight or finished analysis call
  started,        \* number of analysis calls started so far
  admitLog,       \* times at which checkRateLimit admitted a call
  request,        \* the arguments the caller passes and the service's flag
  failures,       \* number of provider attempts that have failed so far
  keyArgs,        \* generateKey: the two argument pairs under comparison
  keyOut,         \* generateKey: the keys returned for them
  ruleArgs,       \* rule-based analyzeContent: the arguments passed
  ruleOut,        \* rule-based analyzeContent: the report returned
  promptArgs,     \* buildUserPrompt and formatTime: the arguments passed
  promptOut,      \* buildUserPrompt and formatTime: the strings returned
  facade,         \* the analyze routes: the request and the response sent
  fetcher         \* the Instagram fetch: the request, the downloads, the outcome

vars == <<now, ticks, cache, nextCleanup, lastOp, requestCount, lastResetTime,
          calls, started, admitLog, request, failures, keyArgs, keyOut,
          ruleArgs, ruleOut, promptArgs, promptOut, facade, fetcher>>

-----------------------------------------------------------------------------
(* Bounds of the model *)

\* calls started, provider failures, clock advances and writes by callers of
\* one behaviour, together
MaxEvents == 4
\* clock advances explored
MaxTicks == 1
\* analysis calls each caller makes, one after the other
MaxCalls == 2
\* callers that run concurrently in SpecConc
NumCallers == 3
\* provider attempts that fail (error or timeout) in one behaviour
MaxFailures == 3
\* CACHE_MAX_SIZE the cache is constructed with
maxSize == 2
\* CACHE_TTL_MINUTES the cache is constructed with
ttlMinutes == 1
\* OPENAI_MAX_REQUESTS_PER_MINUTE
maxRequestsPerMinute == 1

(* Program constants *)

ttlMs == ttlMinutes * 60 * 1000
cleanupIntervalMs == 10 * 60 * 1000
rateWindowMs == 60000
maxRetries == 3
timeoutMs == 30000
backoffMultiplier == 2
maxBackoffMs == 10000
fallbackConfidence == 70

-----------------------------------------------------------------------------
(* Strings *)

\* the code units of the model alphabet, in ascending code-unit order
CharOrder == " !#',.0123456789ABCDEFGHIJKLMNOPQRSTUVWXYZ_abcdefghijklmnopqrstuvwxyz"

CharAt(s, i) == SubSeq(s, i, i)

\* rank of a one-character string in code-unit order
Code(ch) == CHOOSE i \in 1..Len(CharOrder) : CharAt(CharOrder, i) = ch

\* a < b in the order Array.prototype.sort uses without a comparator
RECURSIVE StrLess(_, _)
StrLess(a, b) ==
  IF Len(b) = 0 THEN FALSE
  ELSE IF Len(a) = 0 THEN TRUE
  ELSE IF CharAt(a, 1) = CharAt(b, 1)
       THEN StrLess(SubSeq(a, 2, Len(a)), SubSeq(b, 2, Len(b)))
       ELSE Code(CharAt(a, 1)) < Code(CharAt(b, 1))

\* insert x into the sorted sequence s
RECURSIVE Insert(_, _)
Insert(x, s) ==
  IF s = <<>> THEN <<x>>
  ELSE IF StrLess(x, Head(s)) THEN <<x>> \o s
  ELSE <<Head(s)>> \o Insert(x, Tail(s))

\* the array after arr.sort() (the call sorts in place and returns the array)
RECURSIVE sort(_)
sort(arr) == IF arr = <<>> THEN <<>> ELSE Insert(Head(arr), sort(Tail(arr)))

-----------------------------------------------------------------------------
(* CacheService *)

\* a key built without sorting the requirements
generateKeyUnsorted(postData, requirements) ==
  <<postData.caption, postData.transcript, postData.mediaType,
    sort(postData.hashtags), postData.altText, requirements>>

\* generateKey: digest of the JSON of the canonical content object
generateKey(postData, requirements) ==
  <<postData.caption, postData.transcript, postData.mediaType,
    sort(postData.hashtags), postData.altText, sort(requirements)>>

\* the caller's arrays after generateKey: both were sorted in place
generateKeyArgs(postData, requirements) ==
  [postData |-> [postData EXCEPT !.hashtags = sort(@)],
   requirements |-> sort(requirements)]

\* position of key in the Map, 0 when absent
IndexOfKey(c, key) ==
  IF \E i \in 1..Len(c) : c[i].key = key
  THEN CHOOSE i \in 1..Len(c) : c[i].key = key
  ELSE 0

\* Map.delete
Delete(c, key) ==
  LET i == IndexOfKey(c, key)
  IN IF i = 0 THEN c ELSE SubSeq(c, 1, i - 1) \o SubSeq(c, i + 1, Len(c))

\* Map.set: an existing key keeps its position, a new key goes last
MapSet(c, entry) ==
  LET i == IndexOfKey(c, entry.key)
  IN IF i = 0 THEN Append(c, entry) ELSE [c EXCEPT ![i] = entry]

Miss == [hit |-> FALSE]

\* a get whose expiry test is reversed
getExpiryReversed(c, key, t) ==
  LET i == IF \E k \in 1..Len(c) : c[k].key = key
           THEN CHOOSE k \in 1..Len(c) : c[k].key = key ELSE 0
  IN IF i = 0 THEN [cache |-> c, value |-> Miss]
     ELSE IF t < c[i].expiresAt
          THEN [cache |-> SubSeq(c, 1, i - 1) \o SubSeq(c, i + 1, Len(c)),
                value |-> Miss]
          ELSE [cache |-> [c EXCEPT ![i].lastAccessed = t],
                value |-> [hit |-> TRUE, data |-> c[i].data]]

\* a get whose hits renew the entry's expiry
getRenewing(c, key, t) ==
  LET i == IF \E k \in 1..Len(c) : c[k].key = key
           THEN CHOOSE k \in 1..Len(c) : c[k].key = key ELSE 0
  IN IF i = 0 THEN [cache |-> c, value |-> Miss]
     ELSE IF t > c[i].expiresAt
          THEN [cache |-> SubSeq(c, 1, i - 1) \o SubSeq(c, i + 1, Len(c)),
                value |-> Miss]
          ELSE [cache |-> [c EXCEPT ![i].lastAccessed = t,
                                    ![i].expiresAt = t + ttlMs],
                value |-> [hit |-> TRUE, data |-> c[i].data]]

\* get: the Map after the call and the value returned (Miss stands for null)
get(c, key, t) ==
  LET i == IndexOfKey(c, key)
  IN IF i = 0 THEN [cache |-> c, value |-> Miss]
     ELSE IF t > c[i].expiresAt
          THEN [cache |-> Delete(c, key), value |-> Miss]
          ELSE [cache |-> [c EXCEPT ![i].lastAccessed = t],
                value |-> [hit |-> TRUE, data |-> c[i].data]]

\* the scan of evictOldest started from entry i: the key to delete, if any
RECURSIVE OldestFrom(_, _, _, _)
OldestFrom(c, i, oldestKey, oldestTime) ==
  IF i > Len(c) THEN oldestKey
  ELSE IF c[i].lastAccessed < oldestTime
       THEN OldestFrom(c, i + 1, <<c[i].key>>, c[i].lastAccessed)
       ELSE OldestFrom(c, i + 1, oldestKey, oldestTime)

\* evictOldest: <<>> stands for oldestKey = null
evictOldest(c, t) ==
  LET oldestKey == OldestFrom(c, 1, <<>>, t)
  IN IF oldestKey # <<>> THEN Delete(c, oldestKey[1]) ELSE c

\* set
set(c, key, data, t) ==
  LET c1 == IF Len(c) >= maxSize THEN evictOldest(c, t) ELSE c
  IN MapSet(c1, [key |-> key, data |-> data, createdAt |-> t,
                 lastAccessed |-> t, expiresAt |-> t + ttlMs])

\* has
has(c, key, t) ==
  LET r == get(c, key, t) IN [cache |-> r.cache, value |-> r.value # Miss]

\* cleanup: keep the entries that are not expired
RECURSIVE cleanup(_, _)
cleanup(c, t) ==
  IF c = <<>> THEN <<>>
  ELSE IF t > Head(c).expiresAt THEN cleanup(Tail(c), t)
  ELSE <<Head(c)>> \o cleanup(Tail(c), t)

-----------------------------------------------------------------------------
(* Rule-based analyzer (analysis-service.ts) *)

ABOVE_THE_FOLD_CHAR_LIMIT == 150
FIRST_SECONDS_WORD_LIMIT == 50

UpperChars == "ABCDEFGHIJKLMNOPQRSTUVWXYZ"
LowerChars == "abcdefghijklmnopqrstuvwxyz"
DigitChars == "0123456789"

InStr(chars, ch) == \E i \in 1..Len(chars) : CharAt(chars, i) = ch

\* \w of a regular expression
IsWordChar(ch) ==
  InStr(UpperChars, ch) \/ InStr(LowerChars, ch) \/ InStr(DigitChars, ch) \/ ch = "_"

\* \s of a regular expression, within the model alphabet
IsSpace(ch) == ch = " "

LowerChar(ch) ==
  IF InStr(UpperChars, ch)
  THEN CharAt(LowerChars, CHOOSE i \in 1..Len(UpperChars) : CharAt(UpperChars, i) = ch)
  ELSE ch

\* String.prototype.toLowerCase, character by character (the string is halved
\* to keep the recursion shallow)
RECURSIVE toLowerCase(_)
toLowerCase(s) ==
  IF Len(s) = 0 THEN ""
  ELSE IF Len(s) = 1 THEN LowerChar(s)
  ELSE toLowerCase(SubSeq(s, 1, Len(s) \div 2))
       \o toLowerCase(SubSeq(s, Len(s) \div 2 + 1, Len(s)))

\* String.prototype.includes
includes(s, sub) ==
  \E i \in 0..(Len(s) - Len(sub)) : SubSeq(s, i + 1, i + Len(sub)) = sub

RECURSIVE trimStart(_)
trimStart(s) ==
  IF Len(s) > 0 /\ IsSpace(CharAt(s, 1)) THEN trimStart(SubSeq(s, 2, Len(s))) ELSE s

RECURSIVE trimEnd(_)
trimEnd(s) ==
  IF Len(s) > 0 /\ IsSpace(CharAt(s, Len(s))) THEN trimEnd(SubSeq(s, 1, Len(s) - 1)) ELSE s

\* String.prototype.trim
trim(s) == trimEnd(trimStart(s))

\* String.prototype.substring(0, n)
substring0(s, n) == SubSeq(s, 1, IF Len(s) < n THEN Len(s) ELSE n)

\* length of the longest prefix of s made of characters satisfying the test
RECURSIVE RunLen(_, _, _)
RunLen(s, i, space) ==
  IF i > Len(s) \/ IsSpace(CharAt(s, i)) # space THEN 0
  ELSE 1 + RunLen(s, i + 1, space)

\* text.split(/\s+/) without the empty strings (which the length filter drops)
RECURSIVE splitWhitespace(_)
splitWhitespace(text) ==
  IF Len(text) = 0 THEN <<>>
  ELSE IF IsSpace(CharAt(text, 1))
       THEN splitWhitespace(SubSeq(text, RunLen(text, 1, TRUE) + 1, Len(text)))
       ELSE LET n == RunLen(text, 1, FALSE)
            IN <<SubSeq(text, 1, n)>> \o splitWhitespace(SubSeq(text, n + 1, Len(text)))

\* word.replace(/[^\w#]/g, '')
RECURSIVE stripNonWord(_)
stripNonWord(word) ==
  IF Len(word) = 0 THEN ""
  ELSE (IF IsWordChar(CharAt(word, 1)) \/ CharAt(word, 1) = "#"
        THEN CharAt(word, 1) ELSE "")
       \o stripNonWord(SubSeq(word, 2, Len(word)))

stopWords ==
  {"the", "a", "an", "and", "or", "but", "in", "on", "at", "to", "for", "of",
   "with", "by", "should", "must", "have", "has", "is", "are", "be", "been",
   "being", "will", "would", "above", "fold", "first", "seconds", "mention",
   "mentions", "says", "said", "caption", "description", "text", "hashtag",
   "audio", "video", "beginning", "contains", "includes"}

\* extractKeywords
extractKeywords(text) ==
  LET words == splitWhitespace(text)
      clean == [i \in 1..Len(words) |-> toLowerCase(stripNonWord(words[i]))]
  IN SelectSeq(clean, LAMBDA w : Len(w) > 2 /\ w \notin stopWords)

\* a search that asks for every keyword
everyKeywordIn(keywords, target) ==
  \A i \in 1..Len(keywords) : includes(target, keywords[i])

\* keywords.some(keyword => target.includes(keyword))
someKeywordIn(keywords, target) ==
  \E i \in 1..Len(keywords) : includes(target, keywords[i])

\* end of the run of word characters that starts at position i
RECURSIVE WordRunEnd(_, _)
WordRunEnd(s, i) ==
  IF i < Len(s) /\ IsWordChar(CharAt(s, i + 1)) THEN WordRunEnd(s, i + 1) ELSE i

\* requirement.match(/#\w+/): the matched text, "" when there is no match
matchHashtag(requirement) ==
  LET starts == {i \in 1..(Len(requirement) - 1) :
                   CharAt(requirement, i) = "#" /\ IsWordChar(CharAt(requirement, i + 1))}
  IN IF starts = {} THEN ""
     ELSE LET i == CHOOSE k \in starts : \A m \in starts : k <= m
          IN SubSeq(requirement, i, WordRunEnd(requirement, i))

Result(requirement, passed, explanation) ==
  [requirement |-> requirement, passed |-> passed, explanation |-> explanation]

\* the object a check returns: passed, and the explanation chosen by it
Verdict(requirement, found, passText, failText) ==
  Result(requirement, found, IF found THEN passText ELSE failText)

\* keywords.some(k => captionLower.includes(`#${k}`) || captionLower.includes(k))
someHashtagIn(keywords, captionLower) ==
  \E i \in 1..Len(keywords) :
    \/ includes(captionLower, "#" \o keywords[i])
    \/ includes(captionLower, keywords[i])

\* a hashtag check that searches the whole caption above the fold too
checkSpecificHashtagAnywhere(caption, requirement, lowerReq, hashtag) ==
  IF includes(lowerReq, "above the fold") \/ includes(lowerReq, "beginning")
  THEN Verdict(requirement, includes(toLowerCase(caption), hashtag),
               "Pass: '" \o hashtag \o "' found in the first 150 characters.",
               "Fail: '" \o hashtag \o "' not found in the first 150 characters.")
  ELSE Verdict(requirement, includes(toLowerCase(caption), hashtag),
               "Pass: '" \o hashtag \o "' found in the caption.",
               "Fail: '" \o hashtag \o "' not found in the caption.")

\* checkHashtagRequirement once the requirement names a hashtag
checkSpecificHashtag(caption, requirement, lowerReq, hashtag) ==
  IF includes(lowerReq, "above the fold") \/ includes(lowerReq, "beginning")
  THEN Verdict(requirement,
               includes(toLowerCase(substring0(caption, ABOVE_THE_FOLD_CHAR_LIMIT)),
                        hashtag),
               "Pass: '" \o hashtag \o "' found in the first 150 characters.",
               "Fail: '" \o hashtag \o "' not found in the first 150 characters.")
  ELSE Verdict(requirement, includes(toLowerCase(caption), hashtag),
               "Pass: '" \o hashtag \o "' found in the caption.",
               "Fail: '" \o hashtag \o "' not found in the caption.")

checkHashtagRequirement(caption, requirement, lowerReq) ==
  IF matchHashtag(requirement) = ""
  THEN Verdict(requirement,
               someHashtagIn(extractKeywords(lowerReq), toLowerCase(caption)),
               "Pass: Found relevant hashtag content in the caption.",
               "Fail: Could not find relevant hashtag content in the caption.")
  ELSE checkSpecificHashtag(caption, requirement, lowerReq,
                            toLowerCase(matchHashtag(requirement)))

checkAboveFoldRequirement(caption, requirement, lowerReq) ==
  Verdict(requirement,
          someKeywordIn(extractKeywords(lowerReq),
                        toLowerCase(substring0(caption, ABOVE_THE_FOLD_CHAR_LIMIT))),
          "Pass: Required content found in the first 150 characters.",
          "Fail: Required content not found in the first 150 characters.")

checkTranscriptRequirement(transcript, requirement, lowerReq) ==
  Verdict(requirement,
          someKeywordIn(extractKeywords(lowerReq), toLowerCase(transcript)),
          "Pass: Required content mentioned in the audio/video.",
          "Fail: Required content not mentioned in the audio/video.")

\* transcript.split(' ').slice(0, n).join(' '): the text before the n-th
\* space found from position i on, the whole text when there are fewer
firstWordsText(transcript, i, n) ==
  LET spaces == {k \in i..Len(transcript) : CharAt(transcript, k) = " "}
  IN IF Cardinality(spaces) < n THEN transcript
     ELSE SubSeq(transcript, 1,
            (CHOOSE k \in spaces :
               Cardinality({m \in spaces : m < k}) = n - 1) - 1)

checkFirstSecondsRequirement(transcript, requirement, lowerReq) ==
  Verdict(requirement,
          someKeywordIn(extractKeywords(lowerReq),
            toLowerCase(firstWordsText(transcript, 1, FIRST_SECONDS_WORD_LIMIT))),
          "Pass: Required content mentioned in the first 10 seconds.",
          "Fail: Required content not mentioned in the first 10 seconds.")

checkCaptionRequirement(caption, requirement, lowerReq) ==
  Verdict(requirement,
          someKeywordIn(extractKeywords(lowerReq), toLowerCase(caption)),
          "Pass: Required content found in the caption.",
          "Fail: Required content not found in the caption.")

\* the object checkGeneralRequirement returns
generalVerdict(requirement, foundInCaption, foundInTranscript) ==
  Result(requirement, foundInCaption \/ foundInTranscript,
         IF foundInCaption /\ foundInTranscript
         THEN "Pass: Required content found in the caption and audio."
         ELSE IF foundInCaption THEN "Pass: Required content found in the caption."
         ELSE IF foundInTranscript THEN "Pass: Required content found in the audio."
         ELSE "Fail: Required content not found in the post.")

checkGeneralRequirement(caption, transcript, requirement, lowerReq) ==
  generalVerdict(requirement,
                 someKeywordIn(extractKeywords(lowerReq), toLowerCase(caption)),
                 someKeywordIn(extractKeywords(lowerReq), toLowerCase(transcript)))

\* a dispatch that looks at the first seconds before the audio
routeRequirementTimingFirst(caption, transcript, requirement, lowerReq) ==
  IF includes(lowerReq, "#") \/ includes(lowerReq, "hashtag")
  THEN checkHashtagRequirement(caption, requirement, lowerReq)
  ELSE IF includes(lowerReq, "above the fold") \/ includes(lowerReq, "beginning")
  THEN checkAboveFoldRequirement(caption, requirement, lowerReq)
  ELSE IF /\ includes(lowerReq, "first")
          /\ (includes(lowerReq, "second") \/ includes(lowerReq, "10"))
  THEN checkFirstSecondsRequirement(transcript, requirement, lowerReq)
  ELSE IF \/ includes(lowerReq, "mention") \/ includes(lowerReq, "says")
          \/ includes(lowerReq, "audio") \/ includes(lowerReq, "speak")
  THEN checkTranscriptRequirement(transcript, requirement, lowerReq)
  ELSE IF \/ includes(lowerReq, "caption") \/ includes(lowerReq, "description")
          \/ includes(lowerReq, "text")
  THEN checkCaptionRequirement(caption, requirement, lowerReq)
  ELSE checkGeneralRequirement(caption, transcript, requirement, lowerReq)

\* the dispatch of checkRequirement on the lower-cased requirement
routeRequirement(caption, transcript, requirement, lowerReq) ==
  IF includes(lowerReq, "#") \/ includes(lowerReq, "hashtag")
  THEN checkHashtagRequirement(caption, requirement, lowerReq)
  ELSE IF includes(lowerReq, "above the fold") \/ includes(lowerReq, "beginning")
  THEN checkAboveFoldRequirement(caption, requirement, lowerReq)
  ELSE IF \/ includes(lowerReq, "mention") \/ includes(lowerReq, "says")
          \/ includes(lowerReq, "audio") \/ includes(lowerReq, "speak")
  THEN checkTranscriptRequirement(transcript, requirement, lowerReq)
  ELSE IF /\ includes(lowerReq, "first")
          /\ (includes(lowerReq, "second") \/ includes(lowerReq, "10"))
  THEN checkFirstSecondsRequirement(transcript, requirement, lowerReq)
  ELSE IF \/ includes(lowerReq, "caption") \/ includes(lowerReq, "description")
          \/ includes(lowerReq, "text")
  THEN checkCaptionRequirement(caption, requirement, lowerReq)
  ELSE checkGeneralRequirement(caption, transcript, requirement, lowerReq)

checkRequirement(postData, requirement) ==
  routeRequirement(postData.caption, postData.transcript, requirement,
                   toLowerCase(requirement))

\* results.filter(r => r.passed).length
passedCount(results) == Cardinality({i \in 1..Len(results) : results[i].passed})

\* Math.round((passed / total) * 100), total > 0
roundPercent(passed, total) == (200 * passed + total) \div (2 * total)

\* a results loop that checks the requirement as it was passed
RECURSIVE ruleResultsUntrimmed(_, _)
ruleResultsUntrimmed(postData, requirements) ==
  IF requirements = <<>> THEN <<>>
  ELSE (IF Len(trim(Head(requirements))) = 0 THEN <<>>
        ELSE <<checkRequirement(postData, Head(requirements))>>)
       \o ruleResultsUntrimmed(postData, Tail(requirements))

\* the results loop of analyzeContent: blank requirements are skipped
RECURSIVE ruleResults(_, _)
ruleResults(postData, requirements) ==
  IF requirements = <<>> THEN <<>>
  ELSE LET trimmedReq == trim(Head(requirements))
       IN (IF Len(trimmedReq) = 0 THEN <<>>
           ELSE <<checkRequirement(postData, trimmedReq)>>)
          \o ruleResults(postData, Tail(requirements))

\* the report analyzeContent builds from its results
ruleReport(results) ==
  [results |-> results,
   overallScore |-> IF Len(results) > 0
                    THEN roundPercent(passedCount(results), Len(results))
                    ELSE 0]

\* analyzeContent of analysis-service.ts
analyzeContent(postData, requirements) ==
  ruleReport(ruleResults(postData, requirements))

-----------------------------------------------------------------------------
(* AIAnalysisService (ai-analysis-service.ts) *)

AI_MODEL == "gpt-4.1-mini"

NoReport == [none |-> TRUE]
NoPostData ==
  [caption |-> "", transcript |-> "", mediaType |-> "image",
   hashtags |-> <<>>, altText |-> ""]

\* the call of a caller, before the caller's first call.  postNull and
\* reqsNull say that the argument is null; made, given, trace,
\* providerCalls, caught, live, replied, lastFailure, failedAt, stored and
\* endTime record what the caller and the call have done and are never read
\* by the service.  alias names the cache entry whose data shares memory with
\* the report the caller holds (<<>> when none does); report is the report as
\* it was returned, held is the same object as the caller has it now, and
\* mutated says that the caller has written to it; writes counts the writes
\* of the caller over all its calls.  onProgress is the callback passed to
\* analyzeContentWithAIProgress: the progress values at which it throws
IdleCall ==
  [pc |-> "idle", made |-> 0, entry |-> "none",
   fallbackToRulesBased |-> TRUE,
   postNull |-> FALSE, postData |-> NoPostData,
   reqsNull |-> FALSE, requirements |-> <<>>,
   startTime |-> 0, cacheKey |-> <<>>, attempt |-> 0, attemptStart |-> 0,
   wakeAt |-> 0, outcome |-> "none", report |-> NoReport, error |-> "",
   given |-> <<>>, trace |-> <<>>, providerCalls |-> 0, caught |-> "",
   live |-> <<>>, replied |-> FALSE, lastFailure |-> "", failedAt |-> 0,
   stored |-> <<>>, endTime |-> 0, alias |-> <<>>, held |-> NoReport,
   mutated |-> FALSE, writes |-> 0, onProgress |-> {}]

\* validateInputs: the message of the error thrown, "" when none is
validateInputs(postNull, reqsNull, requirements) ==
  IF postNull THEN "Post data is required"
  ELSE IF reqsNull \/ Len(requirements) = 0
       THEN "At least one requirement must be provided"
  ELSE IF \E i \in 1..Len(requirements) : Len(trim(requirements[i])) = 0
       THEN "All requirements must be non-empty strings"
  ELSE ""

\* the rule-based analyzeContent throws a TypeError: it iterates over null
\* requirements, or reads the fields of a null post for a non-blank requirement
analyzeContentThrows(postNull, reqsNull, requirements) ==
  \/ reqsNull
  \/ postNull /\ \E i \in 1..Len(requirements) : Len(trim(requirements[i])) > 0

\* the report built around the rule-based report
wrapFallback(ruleBasedReport, startTime, t, reasoning) ==
  [results |-> [i \in 1..Len(ruleBasedReport.results) |->
                  [requirement |-> ruleBasedReport.results[i].requirement,
                   passed |-> ruleBasedReport.results[i].passed,
                   explanation |-> ruleBasedReport.results[i].explanation,
                   confidence |-> fallbackConfidence,
                   evidence |-> <<>>,
                   reasoning |-> reasoning]],
   overallScore |-> ruleBasedReport.overallScore,
   aiPowered |-> FALSE,
   processingTime |-> t - startTime,
   model |-> "rule-based-fallback"]

\* the report both fallback branches build from the rule-based report
fallbackReport(postData, requirements, startTime, t, reasoning) ==
  wrapFallback(analyzeContent(postData, requirements), startTime, t, reasoning)

\* fallbackAnalysis
fallbackAnalysis(postData, requirements, startTime, t) ==
  fallbackReport(postData, requirements, startTime, t,
    "Analyzed using rule-based fallback due to AI service unavailability")

\* the report the call holds shares memory with the data of the entry of
\* its key: the data is the report itself ("object") or a shallow copy whose
\* results array is the data's ("results")
Sharing(call, kind, c) ==
  [call EXCEPT !.alias = <<[kind |-> kind, key |-> call.cacheKey,
                            createdAt |-> c[IndexOfKey(c, call.cacheKey)].createdAt]>>]

\* the call has returned the report
Returned(call, report, t) ==
  [call EXCEPT !.pc = "done", !.outcome = "returned", !.report = report,
               !.held = report, !.endTime = t]

\* the call has rejected with the error
Rejected(call, message, t) ==
  [call EXCEPT !.pc = "done", !.outcome = "rejected", !.error = message,
               !.endTime = t]

\* the message of the error a throwing callback throws
CallbackError == "callback error"

\* onProgress(message, progress) throws
onProgressThrows(call, progress) ==
  /\ call.entry = "analyzeContentWithAIProgress"
  /\ progress \in call.onProgress

\* the catch block of analyzeContentWithAIProgress after it has logged the error
progressCatch(call, t) ==
  IF onProgressThrows(call, 50) THEN Rejected(call, CallbackError, t)
  ELSE IF analyzeContentThrows(call.postNull, call.reqsNull, call.requirements)
       THEN Rejected(call, "TypeError", t)
       ELSE Returned(call, fallbackReport(call.postData, call.requirements,
              call.startTime, t,
              "Analyzed using rule-based fallback due to AI service error"), t)

\* a catch block that re-raises the error it caught as it is
catchBlockUnwrapped(call, message, t) ==
  LET c1 == [call EXCEPT !.caught = message]
  IN IF call.entry = "analyzeContent"
     THEN IF call.fallbackToRulesBased
          THEN IF analyzeContentThrows(call.postNull, call.reqsNull, call.requirements)
               THEN Rejected(c1, "TypeError", t)
               ELSE Returned(c1, fallbackAnalysis(call.postData, call.requirements,
                                                  call.startTime, t), t)
          ELSE Rejected(c1, message, t)
     ELSE progressCatch(c1, t)

\* a catch block that re-raises whether or not fallback is enabled
catchBlockRethrows(call, message, t) ==
  Rejected([call EXCEPT !.caught = message], "AI analysis failed: " \o message, t)

\* the catch block of analyzeContent and of analyzeContentWithAIProgress,
\* entered with the message of the error caught
catchBlock(call, message, t) ==
  LET c1 == [call EXCEPT !.caught = message]
  IN IF call.entry = "analyzeContent"
     THEN IF call.fallbackToRulesBased
          THEN IF analyzeContentThrows(call.postNull, call.reqsNull, call.requirements)
               THEN Rejected(c1, "TypeError", t)
               ELSE Returned(c1, fallbackAnalysis(call.postData, call.requirements,
                                                  call.startTime, t), t)
          ELSE Rejected(c1, "AI analysis failed: " \o message, t)
     ELSE progressCatch(c1, t)

\* checkRateLimit up to its await: the counter and window after the reset
\* test, and whether the caller has to wait
checkRateLimit(count, resetTime, t) ==
  LET stale == t - resetTime > rateWindowMs
      count1 == IF stale THEN 0 ELSE count
      reset1 == IF stale THEN t ELSE resetTime
  IN IF count1 >= maxRequestsPerMinute
     THEN [wait |-> TRUE, requestCount |-> count1, lastResetTime |-> reset1,
           waitTime |-> rateWindowMs - (t - reset1)]
     ELSE [wait |-> FALSE, requestCount |-> count1 + 1, lastResetTime |-> reset1,
           waitTime |-> 0]

\* callOpenAIWithRetry sends the request of the next attempt
sendRequest(call, t) ==
  [call EXCEPT !.pc = "awaitProvider", !.attempt = @ + 1, !.attemptStart = t,
               !.providerCalls = @ + 1, !.trace = @ \o <<"call">>]

\* performAIAnalysis builds the prompts and makes the first attempt
performAIAnalysis(call, t) ==
  sendRequest([call EXCEPT !.trace = @ \o <<"prompt">>], t)

\* a delay computed from the number of the attempt to come
backoffMsNextAttempt(attempt, rateLimited) ==
  IF rateLimited
  THEN LET d == 1000 * backoffMultiplier ^ attempt
       IN IF d < maxBackoffMs THEN d ELSE maxBackoffMs
  ELSE 1000 * (attempt + 1)

\* the delay callOpenAIWithRetry waits after failed attempt number attempt
backoffMs(attempt, rateLimited) ==
  IF rateLimited
  THEN LET d == 1000 * backoffMultiplier ^ (attempt - 1)
       IN IF d < maxBackoffMs THEN d ELSE maxBackoffMs
  ELSE 1000 * attempt

resultFields ==
  {"requirement", "passed", "explanation", "confidence", "evidence", "reasoning"}

\* AnalysisResultSchema accepts the object
AnalysisResultSchema(r) ==
  /\ resultFields \subseteq DOMAIN r
  /\ r.confidence >= 0
  /\ r.confidence <= 100

\* AnalysisResponseSchema accepts the parsed response
AnalysisResponseSchema(body) ==
  \A i \in 1..Len(body.results) : AnalysisResultSchema(body.results[i])

\* what performAIAnalysis makes of a settled response: the message of the
\* error it throws, "" when it returns the results
responseError(reply) ==
  IF reply.content = "none" THEN "No response content from OpenAI"
  ELSE IF reply.content = "text" THEN "SyntaxError"
  ELSE IF ~AnalysisResponseSchema(reply.body) THEN "ZodError"
  ELSE ""

\* what the caller of callOpenAIWithRetry makes of a settled response, the
\* progress reports of analyzeContentWithAIProgress included: the message of
\* the error thrown before the report is cached, "" when none is
replyError(call, reply) ==
  IF onProgressThrows(call, 80) THEN CallbackError
  ELSE IF reply.content = "none" THEN responseError(reply)
  ELSE IF onProgressThrows(call, 85) THEN CallbackError
  ELSE IF responseError(reply) # "" THEN responseError(reply)
  ELSE IF onProgressThrows(call, 90) \/ onProgressThrows(call, 95)
       THEN CallbackError
  ELSE ""

\* the report analyzeContent builds from the validated results
aiReport(aiResults, requirements, startTime, t) ==
  [results |-> aiResults,
   overallScore |-> IF Len(requirements) > 0
                    THEN roundPercent(passedCount(aiResults), Len(requirements))
                    ELSE 0,
   aiPowered |-> TRUE,
   processingTime |-> t - startTime,
   model |-> AI_MODEL]

\* Number.prototype.toString of a natural number
RECURSIVE digitsOf(_)
digitsOf(n) ==
  IF n < 10 THEN CharAt(DigitChars, n + 1)
  ELSE digitsOf(n \div 10) \o CharAt(DigitChars, (n % 10) + 1)

\* String.prototype.padStart with a padding of one character
RECURSIVE padStart(_, _, _)
padStart(s, targetLength, padString) ==
  IF Len(s) >= targetLength THEN s
  ELSE padStart(padString \o s, targetLength, padString)

\* a formatTime that wraps the minutes at the hour
formatTimeWrapped(seconds) ==
  padStart(digitsOf((seconds \div 600) % 60), 2, "0") \o ":"
    \o padStart(digitsOf((seconds % 600) \div 10), 2, "0")

\* formatTime; the seconds, a number with a fraction, are counted in tenths of
\* a second: Math.floor(seconds / 60) is seconds \div 600 and
\* Math.floor(seconds % 60) is (seconds % 600) \div 10
formatTime(seconds) ==
  padStart(digitsOf(seconds \div 600), 2, "0") \o ":"
    \o padStart(digitsOf((seconds % 600) \div 10), 2, "0")

\* Array.prototype.join
RECURSIVE join(_, _)
join(lines, separator) ==
  IF Len(lines) = 0 THEN ""
  ELSE IF Len(lines) = 1 THEN lines[1]
  ELSE lines[1] \o separator \o join(Tail(lines), separator)

\* x || fallback for a string x
orElse(x, fallback) == IF x = "" THEN fallback ELSE x

\* the line buildUserPrompt writes for a segment
segmentLine(segment) ==
  "[" \o formatTime(segment.start) \o "-" \o formatTime(segment.end) \o "]: "
    \o trim(segment.text)

\* a transcript section that looks at the timestamps before the media type
transcriptSectionAnyMedia(postData) ==
  IF /\ postData.timestampedTranscript # <<>>
     /\ postData.timestampedTranscript[1].segments # <<>>
  THEN "**TRANSCRIPT (with timestamps):**\n"
         \o join([i \in 1..Len(postData.timestampedTranscript[1].segments[1]) |->
                    segmentLine(postData.timestampedTranscript[1].segments[1][i])],
                 "\n")
         \o "\n\n**Full transcript text:** "
         \o orElse(postData.transcript, "No transcript available")
  ELSE IF postData.mediaType = "video"
  THEN "**TRANSCRIPT:**\n" \o orElse(postData.transcript, "No transcript available")
  ELSE "**TRANSCRIPT:** Not applicable for image content"

\* transcriptSection of buildUserPrompt; an optional field is <<>> when it is
\* undefined and <<value>> otherwise
transcriptSection(postData) ==
  IF postData.mediaType = "video"
  THEN IF /\ postData.timestampedTranscript # <<>>
          /\ postData.timestampedTranscript[1].segments # <<>>
       THEN "**TRANSCRIPT (with timestamps):**\n"
              \o join([i \in 1..Len(postData.timestampedTranscript[1].segments[1]) |->
                         segmentLine(postData.timestampedTranscript[1].segments[1][i])],
                      "\n")
              \o "\n\n**Full transcript text:** "
              \o orElse(postData.transcript, "No transcript available")
       ELSE "**TRANSCRIPT:**\n"
              \o orElse(postData.transcript, "No transcript available")
  ELSE "**TRANSCRIPT:** Not applicable for image content"

\* buildUserPrompt
buildUserPrompt(postData, requirements) ==
  "Analyze this Instagram " \o postData.mediaType \o " post for compliance:\n\n"
    \o "**CAPTION:**\n" \o orElse(postData.caption, "No caption provided") \o "\n\n"
    \o "**HASHTAGS:**\n"
    \o (IF Len(postData.hashtags) > 0
        THEN join([i \in 1..Len(postData.hashtags) |-> "#" \o postData.hashtags[i]], " ")
        ELSE "No hashtags found") \o "\n\n"
    \o "**ALT TEXT (Image Description):**\n"
    \o orElse(postData.altText, "No alt text available") \o "\n\n"
    \o transcriptSection(postData) \o "\n\n"
    \o "**MEDIA TYPE:** " \o postData.mediaType \o "\n\n"
    \o "**REQUIREMENTS TO CHECK:**\n"
    \o join([i \in 1..Len(requirements) |-> digitsOf(i) \o ". " \o requirements[i]],
            "\n") \o "\n\n"
    \o "IMPORTANT: When analyzing requirements that mention timing (e.g., \"within the first X seconds\", \"at the beginning\", \"above the fold\"), pay close attention to the timestamps provided in the transcript. Use the timestamp format [MM:SS-MM:SS] to determine when specific content appears in the video.\n\n"
    \o "Please analyze each requirement thoroughly and provide your assessment with evidence and reasoning. Consider all available content including caption, hashtags, alt text, and transcript with timing information."

-----------------------------------------------------------------------------
(* Time *)

\* writes by callers to the reports they hold
RECURSIVE WritesFrom(_)
WritesFrom(c) ==
  IF c > Len(calls) THEN 0 ELSE calls[c].writes + WritesFrom(c + 1)

\* what the environment has done so far: calls started, failed provider
\* attempts, clock advances and writes by callers
Events == started + failures + ticks + WritesFrom(1)

\* the time at which a timer due at deadline fires: not before it is due
FireTime(deadline) == IF now < deadline THEN deadline ELSE now

\* the first instants at which an entry of the cache is expired
Deadlines == {cache[i].expiresAt + 1 : i \in 1..Len(cache)}

\* the clock is advanced only while something can still happen afterwards:
\* a call is in flight or a caller has a call left to make
ClockMatters ==
  \/ calls = <<>>
  \/ \E c \in DOMAIN calls : calls[c].pc \notin {"idle", "done"}
  \/ \E c \in DOMAIN calls : calls[c].made < MaxCalls

\* the clock moves on to the next millisecond
Tick ==
  /\ ticks < MaxTicks
  /\ Events < MaxEvents
  /\ ClockMatters
  /\ now' = now + 1
  /\ ticks' = ticks + 1
  /\ UNCHANGED <<cache, nextCleanup, lastOp, requestCount, lastResetTime,
                 calls, started, admitLog, request, failures, keyArgs, keyOut,
                 ruleArgs, ruleOut, promptArgs, promptOut, facade, fetcher>>

\* the clock moves on until some entry has expired
TimePasses ==
  /\ ticks < MaxTicks
  /\ Events < MaxEvents
  /\ ClockMatters
  /\ \E t \in {d \in Deadlines : d > now} : now' = t
  /\ ticks' = ticks + 1
  /\ UNCHANGED <<cache, nextCleanup, lastOp, requestCount, lastResetTime,
                 calls, started, admitLog, request, failures, keyArgs, keyOut,
                 ruleArgs, ruleOut, promptArgs, promptOut, facade, fetcher>>

-----------------------------------------------------------------------------
(* Analysis calls *)

PostA ==
  [caption |-> "#ad x", transcript |-> "", mediaType |-> "image",
   hashtags |-> <<"x", "ad">>, altText |-> ""]

\* the progress values analyzeContentWithAIProgress reports
ProgressValues == {0, 20, 40, 45, 50, 60, 80, 85, 90, 95, 100}

\* the callbacks callers pass: one that never throws, one that throws when the
\* cache is checked, one that throws when the analysis is complete, one that
\* always throws
Callbacks == {{}, {20}, {100}, ProgressValues}

\* the requirements arrays callers pass
ReqLists == {<<>>, <<" ">>, <<"b", "#ad">>, <<"#ad", "b">>}

\* the arguments of a call and the fallback flag of the service it is made on
Args ==
  {[postNull |-> FALSE, postData |-> PostA, reqsNull |-> FALSE,
    requirements |-> r, fallbackToRulesBased |-> f, onProgress |-> {}] :
     r \in ReqLists, f \in BOOLEAN}
  \cup
  {[postNull |-> FALSE, postData |-> PostA, reqsNull |-> TRUE,
    requirements |-> <<>>, fallbackToRulesBased |-> f, onProgress |-> {}] :
     f \in BOOLEAN}
  \cup
  {[postNull |-> TRUE, postData |-> NoPostData, reqsNull |-> FALSE,
    requirements |-> r, fallbackToRulesBased |-> f, onProgress |-> {}] :
     r \in {<<>>, <<"b", "#ad">>}, f \in BOOLEAN}
  \cup
  {[postNull |-> FALSE, postData |-> PostA, reqsNull |-> FALSE,
    requirements |-> <<"b", "#ad">>, fallbackToRulesBased |-> TRUE,
    onProgress |-> k] : k \in Callbacks \ {{}}}

\* the data of the unexpired entry held for key, <<>> when there is none
LiveData(c, key, t) ==
  IF \E i \in 1..Len(c) : c[i].key = key /\ t <= c[i].expiresAt
  THEN <<c[IndexOfKey(c, key)].data>>
  ELSE <<>>

NewCall(c, entry, a) ==
  [IdleCall EXCEPT !.made = calls[c].made + 1,
                   !.writes = calls[c].writes,
                   !.onProgress = a.onProgress,
                   !.entry = entry,
                   !.fallbackToRulesBased = a.fallbackToRulesBased,
                   !.postNull = a.postNull, !.postData = a.postData,
                   !.reqsNull = a.reqsNull, !.requirements = a.requirements,
                   !.startTime = now, !.given = <<a>>]

\* the call after generateKey, with the arrays it sorted in place
Keyed(call) ==
  LET args == generateKeyArgs(call.postData, call.requirements)
      key == generateKey(call.postData, call.requirements)
  IN [call EXCEPT !.postData = args.postData, !.requirements = args.requirements,
                  !.cacheKey = key, !.trace = @ \o <<"cache">>,
                  !.live = LiveData(cache, key, now)]

\* AIAnalysisService.analyzeContent up to its first suspension; it takes no
\* callback
analyzeContentWithAI(c, a) ==
  /\ a.onProgress = {}
  /\ calls[c].pc \in {"idle", "done"}
  /\ calls[c].made < MaxCalls
  /\ Events < MaxEvents
  /\ started' = started + 1
  /\ LET call == NewCall(c, "analyzeContent", a)
         invalid == validateInputs(a.postNull, a.reqsNull, a.requirements)
     IN IF invalid # ""
        THEN /\ calls' = [calls EXCEPT ![c] = catchBlock(call, invalid, now)]
             /\ UNCHANGED <<cache, requestCount, lastResetTime, admitLog>>
        ELSE LET keyed == Keyed([call EXCEPT !.trace = <<"validate">>])
                 cached == get(cache, keyed.cacheKey, now)
                 gate == checkRateLimit(requestCount, lastResetTime, now)
             IN /\ cache' = cached.cache
                /\ IF cached.value.hit
                   THEN /\ calls' = [calls EXCEPT ![c] =
                              Returned(Sharing(keyed, "results", cache),
                              [cached.value.data EXCEPT !.processingTime = now - keyed.startTime], now)]
                        /\ UNCHANGED <<requestCount, lastResetTime, admitLog>>
                   ELSE /\ requestCount' = gate.requestCount
                        /\ lastResetTime' = gate.lastResetTime
                        /\ IF gate.wait
                           THEN /\ calls' = [calls EXCEPT ![c] =
                                      [keyed EXCEPT !.pc = "rateWait",
                                                    !.wakeAt = now + gate.waitTime]]
                                /\ UNCHANGED admitLog
                           ELSE /\ calls' = [calls EXCEPT ![c] =
                                      performAIAnalysis(
                                        [keyed EXCEPT !.trace = @ \o <<"gate">>], now)]
                                /\ admitLog' = Append(admitLog, now)
  /\ UNCHANGED <<now, ticks, nextCleanup, lastOp, request, failures, keyArgs, keyOut,
                 ruleArgs, ruleOut, promptArgs, promptOut, facade, fetcher>>

\* the caller calls analyzeContent with the arguments of the behaviour
StartAnalyze(c) == analyzeContentWithAI(c, request)

\* a gate that rejects the caller it has kept waiting
RateResumeRejects(c) ==
  /\ calls[c].pc = "rateWait"
  /\ now' = FireTime(calls[c].wakeAt)
  /\ calls' = [calls EXCEPT ![c] = Rejected(calls[c], "Rate limit exceeded", now')]
  /\ UNCHANGED <<ticks, cache, nextCleanup, lastOp, requestCount, lastResetTime,
                 started, admitLog, request, failures, keyArgs, keyOut,
                 ruleArgs, ruleOut, promptArgs, promptOut, facade, fetcher>>

\* checkRateLimit after its wait, then the first attempt
RateResume(c) ==
  /\ calls[c].pc = "rateWait"
  /\ now' = FireTime(calls[c].wakeAt)
  /\ requestCount' = 0 + 1
  /\ lastResetTime' = now'
  /\ admitLog' = Append(admitLog, now')
  /\ calls' = [calls EXCEPT ![c] =
                 performAIAnalysis([calls[c] EXCEPT !.trace = @ \o <<"gate">>], now')]
  /\ UNCHANGED <<ticks, cache, nextCleanup, lastOp, started, request, failures, keyArgs, keyOut,
                 ruleArgs, ruleOut, promptArgs, promptOut, facade, fetcher>>

\* analyzeContentWithAIProgress up to its first suspension; the service it
\* constructs has the default fallback flag
analyzeContentWithAIProgress(c, a) ==
  /\ a.fallbackToRulesBased
  /\ calls[c].pc \in {"idle", "done"}
  /\ calls[c].made < MaxCalls
  /\ Events < MaxEvents
  /\ started' = started + 1
  /\ LET call == NewCall(c, "analyzeContentWithAIProgress", a)
     IN IF onProgressThrows(call, 0)
        THEN \* outside the try block
             /\ calls' = [calls EXCEPT ![c] = Rejected(call, CallbackError, now)]
             /\ UNCHANGED cache
        ELSE IF onProgressThrows(call, 20)
        THEN /\ calls' = [calls EXCEPT ![c] = catchBlock(call, CallbackError, now)]
             /\ UNCHANGED cache
        ELSE IF a.postNull \/ a.reqsNull
        THEN \* generateKey throws a TypeError; the hashtags are sorted by then
             \* when only the requirements are null
             /\ calls' = [calls EXCEPT ![c] = catchBlock(
                   IF a.postNull THEN call
                   ELSE [call EXCEPT !.postData.hashtags = sort(@)],
                   "TypeError", now)]
             /\ UNCHANGED cache
        ELSE LET keyed == Keyed(call)
                 cached == get(cache, keyed.cacheKey, now)
             IN /\ cache' = cached.cache
                /\ IF cached.value.hit
                   THEN calls' = [calls EXCEPT ![c] =
                          IF onProgressThrows(call, 100)
                          THEN catchBlock(keyed, CallbackError, now)
                          ELSE Returned(Sharing(keyed, "results", cache),
                                 [cached.value.data EXCEPT !.processingTime = now - keyed.startTime], now)]
                   ELSE calls' = [calls EXCEPT ![c] =
                          IF \E p \in {40, 45, 60} : onProgressThrows(call, p)
                          THEN catchBlock(keyed, CallbackError, now)
                          ELSE performAIAnalysis(keyed, now)]
  /\ UNCHANGED <<now, ticks, nextCleanup, lastOp, requestCount, lastResetTime,
                 admitLog, request, failures, keyArgs, keyOut,
                 ruleArgs, ruleOut, promptArgs, promptOut, facade, fetcher>>

\* the caller calls analyzeContentWithAIProgress with the arguments of the
\* behaviour
StartProgress(c) == analyzeContentWithAIProgress(c, request)

AIResult(requirement, passed, confidence) ==
  [requirement |-> requirement, passed |-> passed, explanation |-> "ai",
   confidence |-> confidence, evidence |-> <<>>, reasoning |-> "ai"]

JsonReply(results) ==
  [content |-> "json", body |-> [results |-> results, overallAssessment |-> "ai"]]

\* the responses the provider may give to a request for the requirements:
\* one result per requirement, all passed or all failed; a result missing, added or
\* duplicated; a confidence out of range; a field missing; text that is not
\* JSON; no content
Replies(requirements) ==
  LET n == Len(requirements)
      good(v) == [i \in 1..n |-> AIResult(requirements[i], v[i], 90)]
      allPass == good([i \in 1..n |-> TRUE])
      allFail == good([i \in 1..n |-> FALSE])
  IN {JsonReply(allPass), JsonReply(allFail)}
     \cup {JsonReply(Append(allPass, AIResult("#ad", TRUE, 90))),
           JsonReply(Append(allPass, AIResult("#ad", TRUE, 150))),
           JsonReply(Append(allPass, [requirement |-> "#ad", passed |-> TRUE])),
           [content |-> "text"], [content |-> "none"]}
     \cup (IF n = 0 THEN {}
           ELSE {JsonReply(SubSeq(allPass, 1, n - 1)),
                 JsonReply([i \in 1..n |-> AIResult(requirements[1], TRUE, 90)])})

\* the response with one passed result per requirement
GoodReply(requirements) ==
  JsonReply([i \in 1..Len(requirements) |-> AIResult(requirements[i], TRUE, 90)])

\* the provider answers the pending request; performAIAnalysis parses and
\* validates the answer and the caller scores, caches and returns the report
ProviderReply(c, reply) ==
  /\ calls[c].pc = "awaitProvider"
  /\ LET call == [calls[c] EXCEPT !.replied = TRUE]
         invalid == replyError(call, reply)
     IN IF invalid # ""
        THEN /\ calls' = [calls EXCEPT ![c] = catchBlock(call, invalid, now)]
             /\ UNCHANGED cache
        ELSE LET report == aiReport(reply.body.results, call.requirements,
                                    call.startTime, now)
                 cached == [call EXCEPT !.stored = <<report>>]
             IN /\ cache' = set(cache, call.cacheKey, report, now)
                /\ calls' = [calls EXCEPT ![c] =
                     IF onProgressThrows(call, 100)
                     THEN catchBlock(cached, CallbackError, now)
                     ELSE Returned(Sharing(cached, "object", cache'), report, now)]
  /\ UNCHANGED <<now, ticks, nextCleanup, lastOp, requestCount, lastResetTime,
                 started, admitLog, request, failures, keyArgs, keyOut,
                 ruleArgs, ruleOut, promptArgs, promptOut, facade, fetcher>>

\* what the caller writes to a report it was handed: report.model = 'edited'
\* or report.results.length = 0
Writes == {"model", "results"}

\* the report after the write
Written(report, part) ==
  IF part = "model" THEN [report EXCEPT !.model = "edited"]
  ELSE [report EXCEPT !.results = <<>>]

\* the Map after a write to the report of the call: the write shows in the
\* data of an entry when the report is that data, or when it shares the
\* results array written to
WrittenThrough(c, call, part) ==
  [i \in 1..Len(c) |->
     IF /\ call.alias # <<>>
        /\ c[i].key = call.alias[1].key
        /\ c[i].createdAt = call.alias[1].createdAt
        /\ (call.alias[1].kind = "object" \/ part = "results")
     THEN [c[i] EXCEPT !.data = Written(@, part)]
     ELSE c[i]]

\* the caller writes to the report its last call returned, before its next call
CallerMutates(c, part) ==
  /\ calls[c].pc = "done"
  /\ calls[c].outcome = "returned"
  /\ ~calls[c].mutated
  /\ calls[c].made < MaxCalls
  /\ Events < MaxEvents
  /\ calls' = [calls EXCEPT ![c].held = Written(@, part), ![c].mutated = TRUE,
                            ![c].writes = @ + 1]
  /\ cache' = WrittenThrough(cache, calls[c], part)
  /\ UNCHANGED <<now, ticks, nextCleanup, lastOp, requestCount, lastResetTime,
                 started, admitLog, request, failures, keyArgs, keyOut,
                 ruleArgs, ruleOut, promptArgs, promptOut, facade, fetcher>>

\* the messages of the errors the provider call rejects with: too many
\* requests (429), a server error (500), a wrong API key (401)
ProviderErrors == {"rate_limit_exceeded", "server_error", "invalid_api_key"}

\* a retry loop that allows one attempt more
attemptFailedOneMore(call, message, t) ==
  IF call.attempt > maxRetries
  THEN catchBlock(call, message, t)
  ELSE [call EXCEPT !.pc = "backoff",
                    !.wakeAt = t + backoffMs(call.attempt, includes(message, "rate_limit"))]

\* the catch block of callOpenAIWithRetry
attemptFailed(call, message, t) ==
  IF call.attempt >= maxRetries
  THEN catchBlock(call, message, t)
  ELSE [call EXCEPT !.pc = "backoff",
                    !.wakeAt = t + backoffMs(call.attempt, includes(message, "rate_limit"))]

\* the provider call of the pending attempt rejects
ProviderError(c, message) ==
  /\ calls[c].pc = "awaitProvider"
  /\ failures < MaxFailures
  /\ Events < MaxEvents
  /\ failures' = failures + 1
  /\ calls' = [calls EXCEPT ![c] =
                 attemptFailed([calls[c] EXCEPT !.lastFailure = message,
                                                !.failedAt = now], message, now)]
  /\ UNCHANGED <<now, ticks, cache, nextCleanup, lastOp, requestCount,
                 lastResetTime, started, admitLog, request, keyArgs, keyOut,
                 ruleArgs, ruleOut, promptArgs, promptOut, facade, fetcher>>

\* the timeout timer of the pending attempt wins the race
ProviderTimeout(c) ==
  /\ calls[c].pc = "awaitProvider"
  /\ now' = FireTime(calls[c].attemptStart + timeoutMs)
  /\ failures < MaxFailures
  /\ Events < MaxEvents
  /\ failures' = failures + 1
  /\ calls' = [calls EXCEPT ![c] =
                 attemptFailed([calls[c] EXCEPT !.lastFailure = "Request timeout",
                                                !.failedAt = now'],
                               "Request timeout", now')]
  /\ UNCHANGED <<ticks, cache, nextCleanup, lastOp, requestCount,
                 lastResetTime, started, admitLog, request, keyArgs, keyOut,
                 ruleArgs, ruleOut, promptArgs, promptOut, facade, fetcher>>

\* the backoff delay is over: the next attempt
BackoffResume(c) ==
  /\ calls[c].pc = "backoff"
  /\ now' = FireTime(calls[c].wakeAt)
  /\ calls' = [calls EXCEPT ![c] = sendRequest(calls[c], now')]
  /\ UNCHANGED <<ticks, cache, nextCleanup, lastOp, requestCount,
                 lastResetTime, started, admitLog, request, failures, keyArgs, keyOut,
                 ruleArgs, ruleOut, promptArgs, promptOut, facade, fetcher>>

-----------------------------------------------------------------------------
(* The cache store used directly *)

CacheKeys == {"k1", "k2", "k3"}
CacheData == {"v1", "v2"}

NoOp == [op |-> "none"]

CacheSet(key, data) ==
  /\ cache' = set(cache, key, data, now)
  /\ lastOp' = [op |-> "set", key |-> key, before |-> cache, at |-> now]
  /\ UNCHANGED <<now, ticks, nextCleanup, requestCount, lastResetTime,
                 calls, started, admitLog, request, failures, keyArgs, keyOut,
                 ruleArgs, ruleOut, promptArgs, promptOut, facade, fetcher>>

CacheGet(key) ==
  /\ cache' = get(cache, key, now).cache
  /\ lastOp' = [op |-> "get", key |-> key, before |-> cache, at |-> now,
                value |-> get(cache, key, now).value]
  /\ UNCHANGED <<now, ticks, nextCleanup, requestCount, lastResetTime,
                 calls, started, admitLog, request, failures, keyArgs, keyOut,
                 ruleArgs, ruleOut, promptArgs, promptOut, facade, fetcher>>

CacheHas(key) ==
  /\ cache' = has(cache, key, now).cache
  /\ lastOp' = [op |-> "has", key |-> key, before |-> cache, at |-> now,
                value |-> has(cache, key, now).value]
  /\ UNCHANGED <<now, ticks, nextCleanup, requestCount, lastResetTime,
                 calls, started, admitLog, request, failures, keyArgs, keyOut,
                 ruleArgs, ruleOut, promptArgs, promptOut, facade, fetcher>>

CacheClear ==
  /\ cache' = <<>>
  /\ lastOp' = [op |-> "clear"]
  /\ UNCHANGED <<now, ticks, nextCleanup, requestCount, lastResetTime,
                 calls, started, admitLog, request, failures, keyArgs, keyOut,
                 ruleArgs, ruleOut, promptArgs, promptOut, facade, fetcher>>

\* the setInterval callback of the constructor
CacheCleanup ==
  /\ ticks < MaxTicks
  /\ Events < MaxEvents
  /\ ClockMatters
  /\ ticks' = ticks + 1
  /\ now' = FireTime(nextCleanup)
  /\ cache' = cleanup(cache, now')
  /\ nextCleanup' = nextCleanup + cleanupIntervalMs
  /\ lastOp' = [op |-> "cleanup"]
  /\ UNCHANGED <<requestCount, lastResetTime,
                 calls, started, admitLog, request, failures, keyArgs, keyOut,
                 ruleArgs, ruleOut, promptArgs, promptOut, facade, fetcher>>

NoKeyArgs == <<>>
NoRuleArgs == <<>>
NoPromptArgs == <<>>
NoPromptOut == [prompt |-> <<>>, time |-> <<>>]
NoFacade == <<>>
NoFetch == <<>>
NoRequest == <<>>

InitCache ==
  /\ now = 0
  /\ ticks = 0
  /\ cache = <<>>
  /\ nextCleanup = cleanupIntervalMs
  /\ lastOp = NoOp
  /\ requestCount = 0
  /\ lastResetTime = 0
  /\ calls = <<>>
  /\ started = 0
  /\ admitLog = <<>>
  /\ request = NoRequest
  /\ failures = 0
  /\ keyArgs = NoKeyArgs
  /\ keyOut = <<>>
  /\ ruleArgs = NoRuleArgs
  /\ ruleOut = <<>>
  /\ promptArgs = NoPromptArgs
  /\ promptOut = NoPromptOut
  /\ facade = NoFacade
  /\ fetcher = NoFetch

NextCache ==
  \/ \E key \in CacheKeys, data \in CacheData : CacheSet(key, data)
  \/ \E key \in CacheKeys : CacheGet(key)
  \/ \E key \in CacheKeys : CacheHas(key)
  \/ CacheClear
  \/ CacheCleanup
  \/ Tick
  \/ TimePasses

SpecCache == InitCache /\ [][NextCache]_vars

-----------------------------------------------------------------------------
(* The analysis service, one call after another *)

Init ==
  /\ now = 0
  /\ ticks = 0
  /\ cache = <<>>
  /\ nextCleanup = cleanupIntervalMs
  /\ lastOp = NoOp
  /\ requestCount = 0
  /\ lastResetTime = 0
  /\ calls = <<IdleCall>>
  /\ started = 0
  /\ admitLog = <<>>
  /\ request \in Args
  /\ failures = 0
  /\ keyArgs = NoKeyArgs
  /\ keyOut = <<>>
  /\ ruleArgs = NoRuleArgs
  /\ ruleOut = <<>>
  /\ promptArgs = NoPromptArgs
  /\ promptOut = NoPromptOut
  /\ facade = NoFacade
  /\ fetcher = NoFetch

Next ==
  \/ \E c \in DOMAIN calls : StartAnalyze(c)
  \/ \E c \in DOMAIN calls : StartProgress(c)
  \/ \E c \in DOMAIN calls : RateResume(c)
  \/ \E c \in DOMAIN calls :
       \E reply \in Replies(calls[c].requirements) : ProviderReply(c, reply)
  \/ \E c \in DOMAIN calls, message \in ProviderErrors : ProviderError(c, message)
  \/ \E c \in DOMAIN calls : ProviderTimeout(c)
  \/ \E c \in DOMAIN calls : BackoffResume(c)
  \/ \E c \in DOMAIN calls, part \in Writes : CallerMutates(c, part)
  \/ CacheCleanup
  \/ TimePasses

Spec == Init /\ [][Next]_vars

-----------------------------------------------------------------------------
(* The analysis service called by concurrent callers, with a provider that
   answers every request *)

ConcArgs ==
  {[postNull |-> FALSE, postData |-> PostA, reqsNull |-> FALSE,
    requirements |-> <<"b", "#ad">>, fallbackToRulesBased |-> TRUE,
    onProgress |-> {}]}

InitConc ==
  /\ now = 0
  /\ ticks = 0
  /\ cache = <<>>
  /\ nextCleanup = cleanupIntervalMs
  /\ lastOp = NoOp
  /\ requestCount = 0
  /\ lastResetTime = 0
  /\ calls = [c \in 1..NumCallers |-> IdleCall]
  /\ started = 0
  /\ admitLog = <<>>
  /\ request \in ConcArgs
  /\ failures = 0
  /\ keyArgs = NoKeyArgs
  /\ keyOut = <<>>
  /\ ruleArgs = NoRuleArgs
  /\ ruleOut = <<>>
  /\ promptArgs = NoPromptArgs
  /\ promptOut = NoPromptOut
  /\ facade = NoFacade
  /\ fetcher = NoFetch

NextConc ==
  \/ \E c \in DOMAIN calls : StartAnalyze(c)
  \/ \E c \in DOMAIN calls : RateResume(c)
  \/ \E c \in DOMAIN calls : ProviderReply(c, GoodReply(calls[c].requirements))
  \/ TimePasses

SpecConc == InitConc /\ [][NextConc]_vars

-----------------------------------------------------------------------------
(* generateKey applied to two argument pairs *)

\* longest requirements or hashtags list given to generateKey
MaxKeyLen == 2

KeyReqStrings == {"a", "ab", "B"}
KeyTagStrings == {"ad", "Ad"}

SeqsUpTo(S, n) == UNION {[1..k -> S] : k \in 0..n}

\* the elements of a sequence
Range(s) == {s[i] : i \in 1..Len(s)}

\* number of positions of s holding x
Count(s, x) == Cardinality({i \in 1..Len(s) : s[i] = x})

\* s and t hold the same elements, in any order
IsPermutation(s, t) ==
  /\ Len(s) = Len(t)
  /\ \A i \in 1..Len(s) : Count(s, s[i]) = Count(t, s[i])

\* the arrays that hold the elements of s in any order
Reorderings(s) == {p \in [1..Len(s) -> Range(s)] : IsPermutation(p, s)}

\* the values of timestampedTranscript of the posts keyed: undefined, or
\* the answer of the transcription service with one segment
KeyTranscripts ==
  {<<>>,
   <<[segments |-> <<<<[start |-> 0, end |-> 25, text |-> " t "]>>>>]>>}

KeyPostTimed(tags, ts) ==
  [caption |-> "c", transcript |-> "t", mediaType |-> "video",
   hashtags |-> tags, altText |-> "", timestampedTranscript |-> ts]

KeyPost(tags) == KeyPostTimed(tags, <<>>)

InitKey ==
  /\ now = 0
  /\ ticks = 0
  /\ cache = <<>>
  /\ nextCleanup = cleanupIntervalMs
  /\ lastOp = NoOp
  /\ requestCount = 0
  /\ lastResetTime = 0
  /\ calls = <<>>
  /\ started = 0
  /\ admitLog = <<>>
  /\ request = NoRequest
  /\ failures = 0
  /\ \E ra \in SeqsUpTo(KeyReqStrings, MaxKeyLen),
        ta \in SeqsUpTo(KeyTagStrings, MaxKeyLen) :
       \E rb \in Reorderings(ra) \cup {<<"B">>},
          tb \in Reorderings(ta) \cup {<<"zz">>},
          ts \in KeyTranscripts :
         keyArgs = [origA |-> [postData |-> KeyPost(ta), requirements |-> ra],
                    origB |-> [postData |-> KeyPostTimed(tb, ts), requirements |-> rb],
                    a |-> [postData |-> KeyPost(ta), requirements |-> ra],
                    b |-> [postData |-> KeyPostTimed(tb, ts), requirements |-> rb]]
  /\ keyOut = [a |-> <<>>, b |-> <<>>]
  /\ ruleArgs = NoRuleArgs
  /\ ruleOut = <<>>
  /\ promptArgs = NoPromptArgs
  /\ promptOut = NoPromptOut
  /\ facade = NoFacade
  /\ fetcher = NoFetch

\* generateKey(a.postData, a.requirements), at most twice on the same arrays
KeyCallA ==
  /\ Len(keyOut.a) < 2
  /\ keyOut' = [keyOut EXCEPT !.a =
                  Append(@, generateKey(keyArgs.a.postData, keyArgs.a.requirements))]
  /\ keyArgs' = [keyArgs EXCEPT !.a =
                   generateKeyArgs(keyArgs.a.postData, keyArgs.a.requirements)]
  /\ UNCHANGED <<now, ticks, cache, nextCleanup, lastOp, requestCount,
                 lastResetTime, calls, started, admitLog, request, failures,
                 ruleArgs, ruleOut, promptArgs, promptOut, facade, fetcher>>

\* generateKey(b.postData, b.requirements)
KeyCallB ==
  /\ Len(keyOut.b) < 1
  /\ keyOut' = [keyOut EXCEPT !.b =
                  Append(@, generateKey(keyArgs.b.postData, keyArgs.b.requirements))]
  /\ keyArgs' = [keyArgs EXCEPT !.b =
                   generateKeyArgs(keyArgs.b.postData, keyArgs.b.requirements)]
  /\ UNCHANGED <<now, ticks, cache, nextCleanup, lastOp, requestCount,
                 lastResetTime, calls, started, admitLog, request, failures,
                 ruleArgs, ruleOut, promptArgs, promptOut, facade, fetcher>>

NextKey == KeyCallA \/ KeyCallB

SpecKey == InitKey /\ [][NextKey]_vars

-----------------------------------------------------------------------------
(* The rule-based analyzer called directly *)

\* longest requirements array passed to the rule-based analyzeContent
MaxReqs == 3

\* the requirement lines callers pass: empty, blank, padded, plain
RuleReqStrings == {"", "  ", " #ad ", "b", "x y "}

\* String.prototype.repeat
RECURSIVE Repeat(_, _)
Repeat(s, n) ==
  IF n = 0 THEN ""
  ELSE IF n = 1 THEN s
  ELSE Repeat(s, n \div 2) \o Repeat(s, n - n \div 2)

RulePost(caption, transcript) ==
  [caption |-> caption, transcript |-> transcript, mediaType |-> "video",
   hashtags |-> <<>>, altText |-> ""]

\* captions with a hashtag inside, across and beyond the first 150 characters
FoldCaptions ==
  {"#AD " \o Repeat("x", 200),
   Repeat("x", 147) \o "#ad",
   Repeat("x", 148) \o "#ad",
   Repeat("x", 150) \o "#ad",
   Repeat("x", 160) \o "#ad Sneak"}

\* transcripts that say "discount code" within and after the first 50 words
Transcripts ==
  {Repeat("w ", 48) \o "Discount code",
   Repeat("w ", 50) \o "discount code",
   "protein"}

\* the posts analysed
RulePosts ==
  {RulePost(c, "") : c \in FoldCaptions}
  \cup {RulePost("Sneak Eats text", t) : t \in Transcripts}

\* requirement lines of every category, some of several categories at once,
\* some with no keyword
RuleReqLines ==
  {"#ad must be above the fold",
   "#ad hashtag should appear above the fold",
   "#ad",
   "hashtag sneak",
   "Mentions discount code in the first 10 seconds",
   "Says \"discount code\" in first 10 seconds",
   "discount code in the first 10 seconds",
   "Caption contains Sneak Eats",
   "Caption contains Sneak Peek",
   "Says protein in the audio",
   "beginning of caption mentions Sneak",
   "first 10 text discount",
   "discount",
   "the and of",
   "xx is in text"}

InitRule ==
  /\ now = 0
  /\ ticks = 0
  /\ cache = <<>>
  /\ nextCleanup = cleanupIntervalMs
  /\ lastOp = NoOp
  /\ requestCount = 0
  /\ lastResetTime = 0
  /\ calls = <<>>
  /\ started = 0
  /\ admitLog = <<>>
  /\ request = NoRequest
  /\ failures = 0
  /\ keyArgs = NoKeyArgs
  /\ keyOut = <<>>
  /\ \/ \E requirements \in SeqsUpTo(RuleReqStrings, MaxReqs) :
          ruleArgs = [postData |-> PostA, requirements |-> requirements]
     \/ \E postData \in RulePosts, requirement \in RuleReqLines :
          ruleArgs = [postData |-> postData, requirements |-> <<requirement>>]
  /\ ruleOut = <<>>
  /\ promptArgs = NoPromptArgs
  /\ promptOut = NoPromptOut
  /\ facade = NoFacade
  /\ fetcher = NoFetch

\* analyzeContent(postData, requirements) of analysis-service.ts
RuleAnalyze ==
  /\ ruleOut = <<>>
  /\ ruleOut' = <<analyzeContent(ruleArgs.postData, ruleArgs.requirements)>>
  /\ UNCHANGED <<now, ticks, cache, nextCleanup, lastOp, requestCount,
                 lastResetTime, calls, started, admitLog, request, failures,
                 keyArgs, keyOut, ruleArgs, promptArgs, promptOut, facade, fetcher>>

NextRule == RuleAnalyze

SpecRule == InitRule /\ [][NextRule]_vars

-----------------------------------------------------------------------------
(* The prompt builder called directly *)

\* most segments of a timestamped transcript
MaxSegments == 2
\* formatTime is applied to every whole second up to this one, and to the
\* last tenth of each
MaxSeconds == 75

\* the i-th segment of the transcript: 60.5 seconds long
SegmentAt(i) ==
  [start |-> 605 * (i - 1), end |-> 605 * i,
   text |-> IF i % 2 = 1 THEN " hi " ELSE "there"]

\* the values of postData.timestampedTranscript: undefined, without
\* segments, with 0 to MaxSegments segments
TimestampedTranscripts ==
  {<<>>, <<[segments |-> <<>>]>>}
  \cup {<<[segments |-> <<[i \in 1..n |-> SegmentAt(i)]>>]>> : n \in 0..MaxSegments}

PromptPosts ==
  {[caption |-> "c", transcript |-> t, mediaType |-> m, hashtags |-> <<"ad">>,
    altText |-> "", timestampedTranscript |-> ts] :
     t \in {"", "hi there"}, m \in {"image", "video"},
     ts \in TimestampedTranscripts}

\* the times formatted, in tenths of a second
TimeArgs ==
  {10 * sec + tenth : sec \in 0..MaxSeconds, tenth \in {0, 9}}
  \cup {35990, 36000, 36610, 59999, 60000}

InitPrompt ==
  /\ now = 0
  /\ ticks = 0
  /\ cache = <<>>
  /\ nextCleanup = cleanupIntervalMs
  /\ lastOp = NoOp
  /\ requestCount = 0
  /\ lastResetTime = 0
  /\ calls = <<>>
  /\ started = 0
  /\ admitLog = <<>>
  /\ request = NoRequest
  /\ failures = 0
  /\ keyArgs = NoKeyArgs
  /\ keyOut = <<>>
  /\ ruleArgs = NoRuleArgs
  /\ ruleOut = <<>>
  /\ \/ \E postData \in PromptPosts :
          promptArgs = [op |-> "buildUserPrompt", postData |-> postData,
                        requirements |-> <<"b", "#ad">>]
     \/ \E seconds \in TimeArgs :
          promptArgs = [op |-> "formatTime", seconds |-> seconds]
  /\ promptOut = NoPromptOut
  /\ facade = NoFacade
  /\ fetcher = NoFetch

\* buildUserPrompt(postData, requirements)
BuildPrompt ==
  /\ promptArgs.op = "buildUserPrompt"
  /\ promptOut.prompt = <<>>
  /\ promptOut' = [promptOut EXCEPT !.prompt =
                     <<buildUserPrompt(promptArgs.postData, promptArgs.requirements)>>]
  /\ UNCHANGED <<now, ticks, cache, nextCleanup, lastOp, requestCount,
                 lastResetTime, calls, started, admitLog, request, failures,
                 keyArgs, keyOut, ruleArgs, ruleOut, promptArgs, facade,
                 fetcher>>

\* formatTime(seconds)
FormatTime ==
  /\ promptArgs.op = "formatTime"
  /\ promptOut.time = <<>>
  /\ promptOut' = [promptOut EXCEPT !.time = <<formatTime(promptArgs.seconds)>>]
  /\ UNCHANGED <<now, ticks, cache, nextCleanup, lastOp, requestCount,
                 lastResetTime, calls, started, admitLog, request, failures,
                 keyArgs, keyOut, ruleArgs, ruleOut, promptArgs, facade,
                 fetcher>>

NextPrompt == BuildPrompt \/ FormatTime

SpecPrompt == InitPrompt /\ [][NextPrompt]_vars

-----------------------------------------------------------------------------
(* The Instagram fetch (instagram-service.ts) *)

\* the entry points of the fetch
FetchEntries == {"getInstagramPostData", "getInstagramPostDataWithProgress"}

\* maxRetries of the direct download loop: downloadVideoDirect and
\* downloadVideoDirectWithProgress
directMaxRetries(entry) == IF entry = "getInstagramPostData" THEN 5 ELSE 3

\* the fetches a proxy download makes at most: downloadVideoWithProxy loops
\* maxRetries times, downloadVideoWithProxyProgress fetches once
proxyMaxRetries(entry) == IF entry = "getInstagramPostData" THEN 5 ELSE 1

\* s begins with prefix
StartsWith(s, prefix) ==
  Len(s) >= Len(prefix) /\ SubSeq(s, 1, Len(prefix)) = prefix

\* s without its first n characters
Drop(s, n) == SubSeq(s, n + 1, Len(s))

\* s without the prefix when it begins with it: an optional group
DropOptional(s, prefix) ==
  IF StartsWith(s, prefix) THEN Drop(s, Len(prefix)) ELSE s

\* [A-Za-z0-9_-]
IsCodeChar(ch) == IsWordChar(ch) \/ ch = "-"

\* isValidInstagramUrl:
\* /^https?:\/\/(www\.)?instagram\.com\/(p|reel)\/[A-Za-z0-9_-]+\/?/
isValidInstagramUrl(url) ==
  /\ StartsWith(url, "http")
  /\ LET afterScheme == DropOptional(Drop(url, 4), "s")
     IN /\ StartsWith(afterScheme, "://")
        /\ LET afterHost == DropOptional(Drop(afterScheme, 3), "www.")
           IN /\ StartsWith(afterHost, "instagram.com/")
              /\ LET path == Drop(afterHost, 14)
                     code == IF StartsWith(path, "p/") THEN <<Drop(path, 2)>>
                             ELSE IF StartsWith(path, "reel/") THEN <<Drop(path, 5)>>
                             ELSE <<>>
                 IN /\ code # <<>>
                    /\ Len(code[1]) > 0
                    /\ IsCodeChar(CharAt(code[1], 1))

\* the URLs callers pass: posts, reels, reels under a user name, a post URL
\* with a query, a profile, a story, another host, URLs without a
\* shortcode, text that is no URL, the empty string
Urls ==
  {"https://www.instagram.com/p/ABC123/", "https://instagram.com/p/XYZ789",
   "http://www.instagram.com/p/DEF456/", "https://www.instagram.com/p/GHI012",
   "https://www.instagram.com/reel/ABC123/", "https://instagram.com/reel/XYZ789",
   "http://www.instagram.com/reel/DEF456/", "https://www.instagram.com/reel/GH-_12",
   "https://www.instagram.com/username/reel/ABC123/",
   "https://instagram.com/user.name/reel/XYZ789",
   "http://www.instagram.com/user_name/reel/DEF456/",
   "https://www.instagram.com/p/ABC123/?igsh=1",
   "https://www.instagram.com/user/profile/",
   "https://www.instagram.com/stories/user/123/",
   "https://www.facebook.com/p/ABC123/",
   "https://www.instagram.com/p/", "https://www.instagram.com/reel/",
   "https://www.instagram.com/user/reel/",
   "ftp://www.instagram.com/p/ABC123/",
   "not-a-url", ""}

\* getMockData; the caption is given by its last line
getMockData ==
  [caption |-> "#ad #sneakeats #proteinbar #fitness #postworkout #healthyeating #sponsored #fitnessmotivation #nutrition #gains",
   mediaType |-> "video",
   mediaUrl |-> "https://example.com/sample-video.mp4",
   transcript |-> "Hey everyone! This video is sponsored by Sneak Eats. I've been using their protein bars for months now, and they're incredible. The chocolate chip flavor is my absolute favorite. Perfect for post-workout fuel. Don't forget to use my code SAVE20 for 20% off your first order.",
   hashtags |-> <<"ad", "sneakeats", "proteinbar", "fitness", "postworkout",
                  "healthyeating", "sponsored", "fitnessmotivation",
                  "nutrition", "gains">>,
   altText |-> "Person holding a chocolate chip protein bar with gym equipment in the background"]

\* the items the scraper returns; a field that is absent is ""
ApifyItems ==
  [video |-> [type |-> "Video", videoUrl |-> "https://test.com/video.mp4",
              imageUrl |-> "", displayUrl |-> "", url |-> "",
              caption |-> "#ad x", hashtags |-> <<"x", "ad">>, alt |-> ""],
   image |-> [type |-> "Image", videoUrl |-> "",
              imageUrl |-> "", displayUrl |-> "https://test.com/image.jpg",
              url |-> "", caption |-> "#ad x", hashtags |-> <<"x", "ad">>,
              alt |-> "a"]]

\* the messages of the errors the scraper fails with, and of the error
\* raised for an empty dataset
ScrapeErrors ==
  [timeout |-> "Actor run timeout",
   quota |-> "Monthly usage quota exceeded",
   unauthorized |-> "User was not found or authentication token is not valid",
   failed |-> "Actor run failed",
   empty |-> "No data found for the provided Instagram URL. The post might be private or the URL might be invalid."]

\* the catch block of the entry points: the message of the error thrown
\* instead, <<>> when the mock data is returned
scrapeCatch(message) ==
  IF includes(message, "timeout")
  THEN <<"Request timed out. The Instagram post might be taking too long to scrape. Please try again.">>
  ELSE IF includes(message, "credits") \/ includes(message, "quota")
  THEN <<"Apify API quota exceeded. Please check your Apify account credits.">>
  ELSE IF includes(message, "unauthorized") \/ includes(message, "token")
  THEN <<"Invalid Apify API key. Please check your APIFY_API_KEY environment variable.">>
  ELSE <<>>

\* data.type === 'Video' || data.videoUrl ? 'video' : 'image'
mediaTypeOf(data) ==
  IF data.type = "Video" \/ data.videoUrl # "" THEN "video" ELSE "image"

\* the media URL transformApifyData picks
mediaUrlOf(data) ==
  IF mediaTypeOf(data) = "video"
  THEN orElse(data.videoUrl, orElse(data.displayUrl, data.url))
  ELSE orElse(data.imageUrl, orElse(data.displayUrl, data.url))

\* the post transformApifyData returns
transformed(data, transcript, timestampedTranscript) ==
  [caption |-> data.caption,
   mediaType |-> mediaTypeOf(data),
   mediaUrl |-> mediaUrlOf(data),
   transcript |-> transcript,
   timestampedTranscript |-> timestampedTranscript,
   hashtags |-> data.hashtags,
   altText |-> data.alt]

\* the transcript the catch block of transformApifyData puts in the post
fallbackTranscript(message) ==
  IF includes(message, "download")
  THEN "Instagram video transcription is not available. Instagram restricts direct video downloads."
  ELSE "Transcription failed. Please try again later."

\* the fetch before it is called.  The fields up to whisper are the request
\* and its surroundings: the URL, which environment
\* variables are set, what the scraper answers, how many fetches of the video
\* URL and of the proxy URL fail before one succeeds, what the transcription
\* service answers (or that the file is over its limit of 25MB), and how a
\* failing download fails: by its HTTP status, or by a file that is written
\* and then found empty.  downloads lists the fetches made for the video,
\* thrown the messages of the errors raised and caught on the way; file
\* tells whether the temporary file of the call exists
IdleFetch ==
  [pc |-> "start", entry |-> "getInstagramPostData",
   url |-> "https://www.instagram.com/reel/test123/",
   apifyKey |-> TRUE, openaiKey |-> TRUE, proxyUrl |-> FALSE,
   scrape |-> "video", directFails |-> 0, proxyFails |-> 0,
   whisper |-> "text", failure |-> "http",
   data |-> ApifyItems.video, retryCount |-> 0, downloads |-> <<>>,
   file |-> FALSE,
   thrown |-> <<>>, outcome |-> "none", post |-> NoPostData, error |-> ""]

\* the fetch resolves with the post
Resolved(f, post) ==
  [f EXCEPT !.pc = "done", !.outcome = "resolved", !.post = post]

\* the fetch rejects with the error
Failed(f, message) ==
  [f EXCEPT !.pc = "done", !.outcome = "rejected", !.error = message]

\* the catch block of transformApifyData, entered with the error of
\* getVideoTranscript
transcriptCatch(f, message) ==
  Resolved([f EXCEPT !.thrown = @ \o <<message>>],
           transformed(f.data, fallbackTranscript(message), <<>>))

\* the catch blocks of downloadVideo, entered when the proxy download has
\* failed after the direct one
downloadCatch(f, directMessage, proxyMessage) ==
  LET both == "Both direct and proxy downloads failed. Direct: "
                \o directMessage \o ", Proxy: " \o proxyMessage
      failed == "Failed to download video for transcription: " \o both
  IN transcriptCatch([f EXCEPT !.thrown = @ \o <<both>>], failed)

\* the answers of the transcription service
WhisperText == " Test transcript "

\* the entry point up to its first await
FetchStart ==
  /\ fetcher # NoFetch
  /\ fetcher.pc = "start"
  /\ fetcher' =
       IF ~isValidInstagramUrl(fetcher.url)
       THEN Failed(fetcher, "Invalid Instagram URL provided. Please provide a valid Instagram post or reel URL.")
       ELSE IF ~fetcher.apifyKey
       THEN Resolved(fetcher, getMockData)
       ELSE [fetcher EXCEPT !.pc = "scrape"]
  /\ UNCHANGED <<now, ticks, cache, nextCleanup, lastOp, requestCount,
                 lastResetTime, calls, started, admitLog, request, failures,
                 keyArgs, keyOut, ruleArgs, ruleOut, promptArgs, promptOut,
                 facade>>

\* the scraper has run and its dataset is read; transformApifyData up to
\* its first await
Scraped ==
  /\ fetcher # NoFetch
  /\ fetcher.pc = "scrape"
  /\ fetcher' =
       IF fetcher.scrape \in DOMAIN ScrapeErrors
       THEN LET message == ScrapeErrors[fetcher.scrape]
                f == [fetcher EXCEPT !.thrown = @ \o <<message>>]
            IN IF scrapeCatch(message) # <<>>
               THEN Failed(f, scrapeCatch(message)[1])
               ELSE Resolved(f, getMockData)
       ELSE LET data == ApifyItems[fetcher.scrape]
                f == [fetcher EXCEPT !.data = data]
            IN IF ~(mediaTypeOf(data) = "video" /\ mediaUrlOf(data) # "")
               THEN Resolved(f, transformed(data, "", <<>>))
               ELSE IF ~fetcher.openaiKey
               THEN transcriptCatch(f, "OPENAI_API_KEY not found. Please set this environment variable to enable transcription.")
               ELSE [f EXCEPT !.pc = "direct", !.retryCount = 0]
  /\ UNCHANGED <<now, ticks, cache, nextCleanup, lastOp, requestCount,
                 lastResetTime, calls, started, admitLog, request, failures,
                 keyArgs, keyOut, ruleArgs, ruleOut, promptArgs, promptOut,
                 facade>>

\* the fetches made so far on the path
Fetches(downloads, path) ==
  Cardinality({i \in 1..Len(downloads) : downloads[i].path = path})

DirectError == "HTTP 403: Forbidden"
ProxyError == "Proxy service returned 502: Bad Gateway"

\* the error of a failing fetch of the video URL, and of the proxy URL
directError(failure) ==
  IF failure = "emptyFile" THEN "Downloaded file is empty" ELSE DirectError

proxyError(failure) ==
  IF failure = "emptyFile" THEN "Proxy downloaded file is empty" ELSE ProxyError

\* fs.writeFile in a download: the file exists once a fetch has succeeded
\* or has failed after writing it
writeFile(f, ok) ==
  [f EXCEPT !.file = @ \/ ok \/ f.failure = "emptyFile"]

\* the finally block of getVideoTranscript, which is entered with
\* tempFilePath set once downloadVideo has returned
unlink(f) ==
  [f EXCEPT !.file = FALSE]

\* one fetch of the video URL settles, in the loop of the direct download
DirectFetch ==
  /\ fetcher # NoFetch
  /\ fetcher.pc = "direct"
  /\ LET ok == Fetches(fetcher.downloads, "direct") >= fetcher.directFails
         f == writeFile([fetcher EXCEPT !.downloads = Append(@, [path |-> "direct", ok |-> ok])], ok)
         retryCount == fetcher.retryCount + 1
     IN fetcher' =
          IF ok THEN [f EXCEPT !.pc = "whisper"]
          ELSE IF retryCount < directMaxRetries(fetcher.entry)
          THEN [f EXCEPT !.retryCount = retryCount]
          ELSE LET g == [f EXCEPT !.thrown = @ \o <<directError(f.failure)>>]
               IN IF ~fetcher.proxyUrl
                  THEN downloadCatch(g, directError(f.failure),
                         "No proxy service configured. Set VIDEO_PROXY_SERVICE_URL environment variable.")
                  ELSE [g EXCEPT !.pc = "proxy", !.retryCount = 0]
  /\ UNCHANGED <<now, ticks, cache, nextCleanup, lastOp, requestCount,
                 lastResetTime, calls, started, admitLog, request, failures,
                 keyArgs, keyOut, ruleArgs, ruleOut, promptArgs, promptOut,
                 facade>>

\* the error the proxy download throws when its fetches are used up
proxyFailure(entry, failure) ==
  IF entry = "getInstagramPostData"
  THEN "Proxy download failed after 5 retries: " \o proxyError(failure)
  ELSE proxyError(failure)

\* one fetch of the proxy URL settles
ProxyFetch ==
  /\ fetcher # NoFetch
  /\ fetcher.pc = "proxy"
  /\ LET ok == Fetches(fetcher.downloads, "proxy") >= fetcher.proxyFails
         f == writeFile([fetcher EXCEPT !.downloads = Append(@, [path |-> "proxy", ok |-> ok])], ok)
         retryCount == fetcher.retryCount + 1
     IN fetcher' =
          IF ok THEN [f EXCEPT !.pc = "whisper"]
          ELSE IF retryCount < proxyMaxRetries(fetcher.entry)
          THEN [f EXCEPT !.retryCount = retryCount]
          ELSE downloadCatch(f, directError(f.failure),
                             proxyFailure(fetcher.entry, f.failure))
  /\ UNCHANGED <<now, ticks, cache, nextCleanup, lastOp, requestCount,
                 lastResetTime, calls, started, admitLog, request, failures,
                 keyArgs, keyOut, ruleArgs, ruleOut, promptArgs, promptOut,
                 facade>>

\* getVideoTranscript after its download: the size of the file is checked,
\* the transcription service answers the request made with the file, and
\* the finally block removes the file
Transcribed ==
  /\ fetcher # NoFetch
  /\ fetcher.pc = "whisper"
  /\ LET f == unlink(fetcher)
     IN fetcher' =
          IF fetcher.whisper = "tooLarge"
          THEN transcriptCatch(f, "Video file is too large (30.0MB). OpenAI Whisper API has a 25MB limit.")
          ELSE IF fetcher.whisper = "error"
          THEN transcriptCatch(f, "OpenAI API error: 500 Internal Server Error - ")
          ELSE IF fetcher.whisper = "empty"
          THEN transcriptCatch(f, "Transcription returned empty result")
          ELSE Resolved(f,
                 transformed(fetcher.data, trim(WhisperText),
                             <<[text |-> WhisperText, segments |-> <<>>]>>))
  /\ UNCHANGED <<now, ticks, cache, nextCleanup, lastOp, requestCount,
                 lastResetTime, calls, started, admitLog, request, failures,
                 keyArgs, keyOut, ruleArgs, ruleOut, promptArgs, promptOut,
                 facade>>

\* downloads that fail more often than this never succeed within the loops
MaxFails == 6

\* the requests made and their surroundings
FetchRequests ==
  {[IdleFetch EXCEPT !.entry = e, !.url = u] : e \in FetchEntries, u \in Urls}
  \cup {[IdleFetch EXCEPT !.entry = e, !.apifyKey = FALSE] : e \in FetchEntries}
  \cup {[IdleFetch EXCEPT !.entry = e, !.scrape = s] :
          e \in FetchEntries, s \in DOMAIN ScrapeErrors \cup {"image"}}
  \cup {[IdleFetch EXCEPT !.entry = e, !.openaiKey = FALSE] : e \in FetchEntries}
  \cup {[IdleFetch EXCEPT !.entry = e, !.directFails = d, !.whisper = w] :
          e \in FetchEntries, d \in 0..MaxFails,
          w \in {"text", "error", "empty", "tooLarge"}}
  \cup {[IdleFetch EXCEPT !.entry = e, !.proxyUrl = TRUE, !.directFails = d,
                          !.proxyFails = p, !.whisper = w] :
          e \in FetchEntries, d \in 0..MaxFails, p \in 0..MaxFails,
          w \in {"text", "error"}}
  \cup {[IdleFetch EXCEPT !.entry = e, !.failure = "emptyFile",
                          !.proxyUrl = x, !.directFails = d, !.proxyFails = p] :
          e \in FetchEntries, x \in BOOLEAN, d \in 0..MaxFails,
          p \in {0, MaxFails}}

InitFetch ==
  /\ now = 0
  /\ ticks = 0
  /\ cache = <<>>
  /\ nextCleanup = cleanupIntervalMs
  /\ lastOp = NoOp
  /\ requestCount = 0
  /\ lastResetTime = 0
  /\ calls = <<>>
  /\ started = 0
  /\ admitLog = <<>>
  /\ request = NoRequest
  /\ failures = 0
  /\ keyArgs = NoKeyArgs
  /\ keyOut = <<>>
  /\ ruleArgs = NoRuleArgs
  /\ ruleOut = <<>>
  /\ promptArgs = NoPromptArgs
  /\ promptOut = NoPromptOut
  /\ facade = NoFacade
  /\ fetcher \in FetchRequests

NextFetch ==
  \/ FetchStart
  \/ Scraped
  \/ DirectFetch
  \/ ProxyFetch
  \/ Transcribed

SpecFetch == InitFetch /\ [][NextFetch]_vars

-----------------------------------------------------------------------------
(* The analyze routes (api/analyze and api/analyze-stream) *)

\* the confidence the routes give the results of the rule-based analysis
\* they were asked for, and of the one they fall back to
ruleBasedConfidence == 80
routeFallbackConfidence == 70

Routes == {"analyze", "analyze-stream"}

\* what a request body holds as useAI; "undefined" when it holds none
UseAIValues == {"undefined", "true", "false", "null"}

\* const { useAI = true } = body, then if (useAI)
useAIChosen(useAI) ==
  LET value == IF useAI = "undefined" THEN "true" ELSE useAI
  IN value = "true"

\* the body of a request: <<>> is a field that is absent; the requirements
\* string is given by its lines, <<"">> being the empty string
Body(postUrl, requirements, useAI) ==
  [postUrl |-> postUrl, requirements |-> requirements, useAI |-> useAI]

\* the input validation of the routes: the message of the error sent, "" when
\* the input is accepted
RECURSIVE requirementsArray(_)
requirementsArray(lines) ==
  IF lines = <<>> THEN <<>>
  ELSE (IF Len(trim(Head(lines))) > 0 THEN <<trim(Head(lines))>> ELSE <<>>)
       \o requirementsArray(Tail(lines))

bodyError(body) ==
  IF body.postUrl = <<>> \/ body.postUrl = <<"">>
  THEN "Post URL is required and must be a string"
  ELSE IF body.requirements = <<>> \/ body.requirements = <<<<"">>>>
  THEN "Requirements are required and must be a string"
  ELSE IF requirementsArray(body.requirements[1]) = <<>>
  THEN "At least one requirement must be provided"
  ELSE ""

\* the report the routes build around a rule-based report
routeReport(ruleBasedReport, model, confidence, reasoning) ==
  [results |-> [i \in 1..Len(ruleBasedReport.results) |->
                  [requirement |-> ruleBasedReport.results[i].requirement,
                   passed |-> ruleBasedReport.results[i].passed,
                   explanation |-> ruleBasedReport.results[i].explanation,
                   confidence |-> confidence,
                   evidence |-> <<>>,
                   reasoning |-> reasoning]],
   overallScore |-> ruleBasedReport.overallScore,
   aiPowered |-> FALSE,
   processingTime |-> 0,
   model |-> model]

\* a rule-based branch that tags its report as the fallback does
routeRuleBasedAsFallback(postData, requirements) ==
  routeReport(analyzeContent(postData, requirements), "rule-based-fallback",
              routeFallbackConfidence,
              "Analyzed using rule-based fallback due to AI service error")

\* the else branch of if (useAI)
routeRuleBased(postData, requirements) ==
  routeReport(analyzeContent(postData, requirements), "rule-based",
              ruleBasedConfidence, "Analyzed using rule-based approach")

\* the catch block around the call of the AI analysis
routeCatch(postData, requirements) ==
  routeReport(analyzeContent(postData, requirements), "rule-based-fallback",
              routeFallbackConfidence,
              "Analyzed using rule-based fallback due to AI service error")

\* a constructor that accepts a missing key
constructorLenient(apiKey) == <<>>

\* the constructor of AIAnalysisService: the message of the error it throws,
\* <<>> when it throws none
constructorThrows(apiKey) ==
  IF ~apiKey THEN <<"OPENAI_API_KEY environment variable is required">>
  ELSE <<>>

\* the response with the report
Success(post, report) ==
  [ok |-> TRUE, status |-> 200, error |-> "",
   postData |-> <<[caption |-> post.caption, mediaType |-> post.mediaType,
                   mediaUrl |-> post.mediaUrl]>>,
   analysis |-> <<report>>]

\* the response that reports an error: the plain route answers with a status
\* and a message of its own, the streaming route sends an error event with
\* the message it was given
Problem(route, status, message, own) ==
  [ok |-> FALSE,
   status |-> IF route = "analyze" THEN status ELSE 200,
   error |-> IF route = "analyze" THEN own ELSE message,
   postData |-> <<>>, analysis |-> <<>>]

\* the outer catch block of the routes
outerCatch(route, message) ==
  IF includes(message, "Invalid Instagram URL")
  THEN Problem(route, 400, message, "Please provide a valid Instagram URL")
  ELSE Problem(route, 500, message,
               "An error occurred while analyzing the post. Please try again.")

\* the fetch entry point the route calls
entryOf(route) ==
  IF route = "analyze" THEN "getInstagramPostData"
  ELSE "getInstagramPostDataWithProgress"

\* the arguments the routes pass to the AI analysis
routeArgs(postData, requirements) ==
  [postNull |-> FALSE, postData |-> postData, reqsNull |-> FALSE,
   requirements |-> requirements, fallbackToRulesBased |-> TRUE,
   onProgress |-> {}]

\* the stream of the streaming route when it is created: the updates
\* enqueued, whether it is closed, how often controller.close() was invoked,
\* and the errors its controller has thrown
NewStream ==
  [events |-> <<>>, closed |-> FALSE, closes |-> 0, errors |-> <<>>]

\* the updates the route sends: of a step, of an error, of the result
Update(step) == [step |-> step, error |-> "", data |-> <<>>]
ErrorUpdate(message) == [step |-> "error", error |-> message, data |-> <<>>]
CompleteUpdate(response) == [step |-> "complete", error |-> "", data |-> <<response>>]

\* the updates sent before the fetch, and up to the analysis
BeforeFetch == <<Update("validating"), Update("validating"), Update("fetching")>>
BeforeAnalysis == BeforeFetch \o <<Update("fetching"), Update("analyzing")>>

\* sendUpdate, for the updates in turn: controller.enqueue throws on a
\* closed stream
sendUpdate(stream, updates) ==
  IF stream.closed /\ updates # <<>>
  THEN [stream EXCEPT !.errors = Append(@, "Invalid state: Controller is already closed")]
  ELSE [stream EXCEPT !.events = @ \o updates]

\* controller.close(): throws on a closed stream
close(stream) ==
  IF stream.closed
  THEN [stream EXCEPT !.closes = @ + 1,
                      !.errors = Append(@, "Invalid state: Controller is already closed")]
  ELSE [stream EXCEPT !.closes = @ + 1, !.closed = TRUE]

\* the stream when processRequest has ended: the route has sent the updates
\* (those of the callbacks it passes to the fetch and to the analysis, all of
\* step fetching or analyzing, are left out), has closed the stream before
\* its return when the body was rejected, and has gone through its finally
\* block.  The plain route has no stream
routeStream(route, updates, rejected) ==
  IF route = "analyze" THEN NewStream
  ELSE LET sent == sendUpdate(NewStream, updates)
       IN close(IF rejected THEN close(sent) ELSE sent)

\* analyzePostStream has not settled
NoClient == [outcome |-> "none", value |-> <<>>, error |-> ""]

\* analyzePostStream reading the updates from position i on: it returns the
\* data of a complete update that has data, and resolves with undefined
\* (value <<>>) when the stream is done; the error it throws for an error
\* update is thrown inside the try block around JSON.parse and caught there
RECURSIVE readUpdates(_, _)
readUpdates(events, i) ==
  IF i > Len(events)
  THEN [outcome |-> "resolved", value |-> <<>>, error |-> ""]
  ELSE IF events[i].step = "complete" /\ events[i].data # <<>>
  THEN [outcome |-> "resolved", value |-> events[i].data, error |-> ""]
  ELSE readUpdates(events, i + 1)

\* the request a route has received.  before is the cache as the request
\* found it, thrown the message of the error the route caught around the AI
\* analysis, response the response sent, stream the stream of the streaming
\* route, client the call of analyzePostStream that reads it
IdleFacade ==
  [route |-> "analyze",
   body |-> Body(<<"url">>, <<<<" b ", "", "#ad">>>>, "undefined"),
   before |-> <<>>, thrown |-> <<>>, response |-> <<>>,
   stream |-> NewStream, client |-> NoClient]

\* the route is past its fetch and has the post
Fetched ==
  /\ facade # NoFacade
  /\ facade.response = <<>>
  /\ fetcher.pc = "done"
  /\ fetcher.outcome = "resolved"
  /\ calls[1].made = 0

\* the route rejects the body
FacadeInvalid ==
  /\ facade # NoFacade
  /\ facade.response = <<>>
  /\ bodyError(facade.body) # ""
  /\ facade' = [facade EXCEPT
                  !.response =
                    <<Problem(facade.route, 400, bodyError(facade.body),
                              bodyError(facade.body))>>,
                  !.stream =
                    routeStream(facade.route,
                      <<Update("validating"), ErrorUpdate(bodyError(facade.body))>>,
                      TRUE)]
  /\ UNCHANGED <<now, ticks, cache, nextCleanup, lastOp, requestCount,
                 lastResetTime, calls, started, admitLog, request, failures,
                 keyArgs, keyOut, ruleArgs, ruleOut, promptArgs, promptOut,
                 fetcher>>

\* the route accepts the body and calls the fetch
FacadeFetch ==
  /\ facade # NoFacade
  /\ facade.response = <<>>
  /\ bodyError(facade.body) = ""
  /\ fetcher.entry = entryOf(facade.route)
  /\ FetchStart

\* the fetch has rejected: the outer catch block
FacadeFetchFailed ==
  /\ facade # NoFacade
  /\ facade.response = <<>>
  /\ fetcher.pc = "done"
  /\ fetcher.outcome = "rejected"
  /\ facade' = [facade EXCEPT
                  !.response = <<outerCatch(facade.route, fetcher.error)>>,
                  !.stream =
                    routeStream(facade.route,
                      BeforeFetch \o <<ErrorUpdate(fetcher.error)>>, FALSE)]
  /\ UNCHANGED <<now, ticks, cache, nextCleanup, lastOp, requestCount,
                 lastResetTime, calls, started, admitLog, request, failures,
                 keyArgs, keyOut, ruleArgs, ruleOut, promptArgs, promptOut,
                 fetcher>>

\* the route has the post and useAI is not chosen
FacadeRuleBased ==
  /\ Fetched
  /\ ~useAIChosen(facade.body.useAI)
  /\ LET response == Success(fetcher.post,
                         routeRuleBased(fetcher.post,
                           requirementsArray(facade.body.requirements[1])))
     IN facade' = [facade EXCEPT
                     !.response = <<response>>,
                     !.stream =
                       routeStream(facade.route,
                         BeforeAnalysis \o <<CompleteUpdate(response)>>, FALSE)]
  /\ UNCHANGED <<now, ticks, cache, nextCleanup, lastOp, requestCount,
                 lastResetTime, calls, started, admitLog, request, failures,
                 keyArgs, keyOut, ruleArgs, ruleOut, promptArgs, promptOut,
                 fetcher>>

\* the route has the post, useAI is chosen and the constructor of the
\* service throws
FacadeNoService ==
  /\ Fetched
  /\ useAIChosen(facade.body.useAI)
  /\ constructorThrows(fetcher.openaiKey) # <<>>
  /\ LET response == Success(fetcher.post,
                         routeCatch(fetcher.post,
                           requirementsArray(facade.body.requirements[1])))
     IN facade' = [facade EXCEPT
                     !.thrown = constructorThrows(fetcher.openaiKey),
                     !.response = <<response>>,
                     !.stream =
                       routeStream(facade.route,
                         BeforeAnalysis
                           \o <<Update("analyzing"), CompleteUpdate(response)>>,
                         FALSE)]
  /\ UNCHANGED <<now, ticks, cache, nextCleanup, lastOp, requestCount,
                 lastResetTime, calls, started, admitLog, request, failures,
                 keyArgs, keyOut, ruleArgs, ruleOut, promptArgs, promptOut,
                 fetcher>>

\* the plain route has the post, useAI is chosen and analyzeContentWithAI runs
FacadeAnalyze ==
  /\ Fetched
  /\ facade.route = "analyze"
  /\ useAIChosen(facade.body.useAI)
  /\ constructorThrows(fetcher.openaiKey) = <<>>
  /\ analyzeContentWithAI(1,
       routeArgs(fetcher.post, requirementsArray(facade.body.requirements[1])))

\* the streaming route has the post, useAI is chosen and
\* analyzeContentWithAIProgress runs
FacadeStream ==
  /\ Fetched
  /\ facade.route = "analyze-stream"
  /\ useAIChosen(facade.body.useAI)
  /\ constructorThrows(fetcher.openaiKey) = <<>>
  /\ analyzeContentWithAIProgress(1,
       routeArgs(fetcher.post, requirementsArray(facade.body.requirements[1])))

\* the AI analysis has settled: the route sends its report, or the report of
\* its catch block
FacadeSettle ==
  /\ facade # NoFacade
  /\ facade.response = <<>>
  /\ calls[1].pc = "done"
  /\ LET returned == Success(fetcher.post, calls[1].report)
         caught == Success(fetcher.post,
                           routeCatch(calls[1].postData, calls[1].requirements))
     IN facade' =
          IF calls[1].outcome = "returned"
          THEN [facade EXCEPT
                  !.response = <<returned>>,
                  !.stream =
                    routeStream(facade.route,
                      BeforeAnalysis \o <<CompleteUpdate(returned)>>, FALSE)]
          ELSE [facade EXCEPT
                  !.thrown = <<calls[1].error>>,
                  !.response = <<caught>>,
                  !.stream =
                    routeStream(facade.route,
                      BeforeAnalysis
                        \o <<Update("analyzing"), CompleteUpdate(caught)>>,
                      FALSE)]
  /\ UNCHANGED <<now, ticks, cache, nextCleanup, lastOp, requestCount,
                 lastResetTime, calls, started, admitLog, request, failures,
                 keyArgs, keyOut, ruleArgs, ruleOut, promptArgs, promptOut,
                 fetcher>>

\* analyzePostStream has read the stream of the streaming route to its end
\* or to its return
ClientReads ==
  /\ facade # NoFacade
  /\ facade.route = "analyze-stream"
  /\ facade.response # <<>>
  /\ facade.client = NoClient
  /\ facade' = [facade EXCEPT !.client = readUpdates(facade.stream.events, 1)]
  /\ UNCHANGED <<now, ticks, cache, nextCleanup, lastOp, requestCount,
                 lastResetTime, calls, started, admitLog, request, failures,
                 keyArgs, keyOut, ruleArgs, ruleOut, promptArgs, promptOut,
                 fetcher>>

\* the requests the routes receive
FacadeRequests ==
  {[IdleFacade EXCEPT !.route = r, !.body.useAI = u] :
     r \in Routes, u \in UseAIValues}
  \cup {[IdleFacade EXCEPT !.route = r, !.body = b] :
          r \in Routes,
          b \in {Body(<<>>, <<<<"b">>>>, "true"),
                 Body(<<"url">>, <<>>, "true"),
                 Body(<<"url">>, <<<<"">>>>, "true"),
                 Body(<<"url">>, <<<<" ", "">>>>, "true")}}

\* the fetches behind them
FacadeFetches ==
  {[IdleFetch EXCEPT !.entry = e, !.url = "not-a-url"] : e \in FetchEntries}
  \cup {[IdleFetch EXCEPT !.entry = e, !.apifyKey = FALSE, !.openaiKey = k] :
          e \in FetchEntries, k \in BOOLEAN}
  \cup {[IdleFetch EXCEPT !.entry = e, !.scrape = s, !.openaiKey = k] :
          e \in FetchEntries, s \in {"video", "image", "timeout"}, k \in BOOLEAN}

\* the post of the video item with its transcript
VideoPost ==
  transformed(ApifyItems.video, trim(WhisperText),
              <<[text |-> WhisperText, segments |-> <<>>]>>)

\* the cache as the request finds it: empty, or with the report of an
\* earlier analysis of the video post
FacadeCaches ==
  {<<>>,
   set(<<>>, generateKey(VideoPost, <<"b", "#ad">>),
       aiReport(<<AIResult("b", TRUE, 90), AIResult("#ad", FALSE, 90)>>,
                <<"b", "#ad">>, 0, 0), 0)}

InitFacade ==
  /\ now = 1
  /\ ticks = 0
  /\ cache \in FacadeCaches
  /\ nextCleanup = cleanupIntervalMs
  /\ lastOp = NoOp
  /\ requestCount = 0
  /\ lastResetTime = 0
  /\ calls = <<IdleCall>>
  /\ started = 0
  /\ admitLog = <<>>
  /\ request = NoRequest
  /\ failures = 0
  /\ keyArgs = NoKeyArgs
  /\ keyOut = <<>>
  /\ ruleArgs = NoRuleArgs
  /\ ruleOut = <<>>
  /\ promptArgs = NoPromptArgs
  /\ promptOut = NoPromptOut
  /\ fetcher \in FacadeFetches
  /\ \E f \in FacadeRequests :
       /\ fetcher.entry = entryOf(f.route)
       /\ facade = [f EXCEPT !.before = cache]

NextFacade ==
  \/ FacadeInvalid
  \/ FacadeFetch
  \/ Scraped
  \/ DirectFetch
  \/ Transcribed
  \/ FacadeFetchFailed
  \/ FacadeRuleBased
  \/ FacadeNoService
  \/ FacadeAnalyze
  \/ FacadeStream
  \/ \E reply \in Replies(calls[1].requirements) : ProviderReply(1, reply)
  \/ \E message \in ProviderErrors : ProviderError(1, message)
  \/ ProviderTimeout(1)
  \/ BackoffResume(1)
  \/ FacadeSettle
  \/ ClientReads

SpecFacade == InitFacade /\ [][NextFacade]_vars

-----------------------------------------------------------------------------
(* The analysis service with timers that fire and provider calls that
   settle *)

\* callers in SpecLive, each making its calls one after the other
LiveCallers == 1

\* the race of callOpenAIWithRetry ends: the provider call resolves or
\* rejects, or the timeout timer fires
Settles(c) ==
  \/ ProviderReply(c, GoodReply(calls[c].requirements))
  \/ ProviderReply(c, [content |-> "none"])
  \/ ProviderError(c, "rate_limit_exceeded")
  \/ ProviderTimeout(c)

InitLive ==
  /\ now = 0
  /\ ticks = 0
  /\ cache = <<>>
  /\ nextCleanup = cleanupIntervalMs
  /\ lastOp = NoOp
  /\ requestCount = 0
  /\ lastResetTime = 0
  /\ calls = [c \in 1..LiveCallers |-> IdleCall]
  /\ started = 0
  /\ admitLog = <<>>
  /\ request \in ConcArgs
  /\ failures = 0
  /\ keyArgs = NoKeyArgs
  /\ keyOut = <<>>
  /\ ruleArgs = NoRuleArgs
  /\ ruleOut = <<>>
  /\ promptArgs = NoPromptArgs
  /\ promptOut = NoPromptOut
  /\ facade = NoFacade
  /\ fetcher = NoFetch

NextLive ==
  \/ \E c \in DOMAIN calls : StartAnalyze(c)
  \/ \E c \in DOMAIN calls : RateResume(c)
  \/ \E c \in DOMAIN calls : Settles(c)
  \/ \E c \in DOMAIN calls : BackoffResume(c)

\* the timer a suspended call waits for fires: the one of the gate, or the
\* one of the backoff
TimerFires(c) == RateResume(c) \/ BackoffResume(c)

\* the timers fire, and every provider call settles or is cut off by its
\* timeout
Fairness ==
  \A c \in 1..LiveCallers :
    /\ WF_vars(TimerFires(c))
    /\ WF_vars(Settles(c))

SpecLive == InitLive /\ [][NextLive]_vars /\ Fairness

-----------------------------------------------------------------------------
(* Properties *)

\* the two argument pairs differ at most in the order of their lists
SameUpToOrder ==
  /\ IsPermutation(keyArgs.origA.requirements, keyArgs.origB.requirements)
  /\ IsPermutation(keyArgs.origA.postData.hashtags, keyArgs.origB.postData.hashtags)

\* C4: generateKey returns the same key for any two permutations of the
\* requirements list and of the hashtags list, and the same key when it is
\* called twice on the same input.
C4_KeyOrderIndependent ==
  /\ \A i, j \in 1..Len(keyOut.a) : keyOut.a[i] = keyOut.a[j]
  /\ SameUpToOrder =>
       \A i \in 1..Len(keyOut.a), j \in 1..Len(keyOut.b) : keyOut.a[i] = keyOut.b[j]

\* C4 witness: two differently ordered inputs were keyed, one of them twice.
C4_Witness ==
  /\ SameUpToOrder
  /\ keyArgs.origA.requirements # keyArgs.origB.requirements
  /\ keyArgs.origA.postData.hashtags # keyArgs.origB.postData.hashtags
  /\ Len(keyOut.a) = 2
  /\ Len(keyOut.b) = 1
  /\ keyOut.a[2] = keyOut.b[1]

\* the call passed validateInputs
Validated(call) == "validate" \in Range(call.trace)

\* C1: with fallback enabled, a call of AIAnalysisService.analyzeContent
\* that passed validation never rejects, and when anything failed after
\* validation it returns a report tagged aiPowered = false and
\* model = 'rule-based-fallback' whose results all have confidence 0.7.
C1_FallbackOnFailure ==
  \A c \in DOMAIN calls :
    (/\ calls[c].entry = "analyzeContent"
     /\ calls[c].fallbackToRulesBased
     /\ Validated(calls[c])
     /\ calls[c].pc = "done")
    => /\ calls[c].outcome = "returned"
       /\ calls[c].caught # "" =>
            /\ calls[c].report.aiPowered = FALSE
            /\ calls[c].report.model = "rule-based-fallback"
            /\ \A i \in 1..Len(calls[c].report.results) :
                 calls[c].report.results[i].confidence = 70

\* C1 witness: a validated call whose three attempts failed has returned a
\* fallback report with results.
C1_Witness ==
  \E c \in DOMAIN calls :
    /\ calls[c].entry = "analyzeContent"
    /\ calls[c].fallbackToRulesBased
    /\ Validated(calls[c])
    /\ calls[c].pc = "done"
    /\ calls[c].providerCalls = 3
    /\ calls[c].caught # ""
    /\ calls[c].outcome = "returned"
    /\ Len(calls[c].report.results) = 2
    /\ calls[c].report.model = "rule-based-fallback"

\* the arguments the call was given fail validateInputs
InvalidInput(call) ==
  /\ call.given # <<>>
  /\ validateInputs(call.given[1].postNull, call.given[1].reqsNull,
                    call.given[1].requirements) # ""

\* C2: a call of AIAnalysisService.analyzeContent whose input fails
\* validation is rejected and returns no report, whether or not fallback is
\* enabled.
C2_ValidationErrorsRaised ==
  \A c \in DOMAIN calls :
    (/\ calls[c].entry = "analyzeContent"
     /\ calls[c].pc = "done"
     /\ InvalidInput(calls[c]))
    => /\ calls[c].outcome = "rejected"
       /\ calls[c].report = NoReport

\* C3: an analyzeContent call that passes validation while the cache holds
\* an unexpired entry for its key makes no provider call, takes no
\* rate-limit slot and returns the entry's results, overallScore, aiPowered
\* and model, with processingTime recomputed from its own start.
C3_CacheHitShortCircuits ==
  \A c \in DOMAIN calls :
    (/\ calls[c].entry = "analyzeContent"
     /\ Validated(calls[c])
     /\ calls[c].live # <<>>)
    => /\ calls[c].pc = "done"
       /\ calls[c].outcome = "returned"
       /\ calls[c].providerCalls = 0
       /\ "gate" \notin Range(calls[c].trace)
       /\ "call" \notin Range(calls[c].trace)
       /\ calls[c].report.results = calls[c].live[1].results
       /\ calls[c].report.overallScore = calls[c].live[1].overallScore
       /\ calls[c].report.aiPowered = calls[c].live[1].aiPowered
       /\ calls[c].report.model = calls[c].live[1].model
       /\ calls[c].report.processingTime = calls[c].endTime - calls[c].startTime

\* C3 witness: a caller's second call found the report cached by an earlier
\* call and returned it with a processing time of its own.
C3_Witness ==
  \E c \in DOMAIN calls :
    /\ calls[c].entry = "analyzeContent"
    /\ Validated(calls[c])
    /\ calls[c].live # <<>>
    /\ calls[c].made = 2
    /\ calls[c].pc = "done"
    /\ calls[c].report.aiPowered
    /\ calls[c].report.processingTime # calls[c].live[1].processingTime

\* C5: in every window of the rate limiter at most maxRequestsPerMinute
\* calls are admitted, whatever the interleaving of the callers.
C5_RateLimitHolds ==
  Cardinality({i \in 1..Len(admitLog) : admitLog[i] >= lastResetTime})
    <= maxRequestsPerMinute

\* C6: a call invokes the provider at most 3 times; an answer of the
\* provider ends the attempts; a timeout is a failed attempt like any other;
\* after the third failed attempt the last error is surfaced and no fourth
\* attempt is made.
C6_AtMostThreeAttempts ==
  \A c \in DOMAIN calls :
    /\ calls[c].providerCalls <= 3
    /\ calls[c].replied => calls[c].pc = "done"
    /\ calls[c].pc = "backoff" => calls[c].providerCalls < 3
    /\ (calls[c].pc = "done" /\ ~calls[c].replied /\ calls[c].providerCalls > 0)
       => /\ calls[c].providerCalls = 3
          /\ calls[c].caught = calls[c].lastFailure

\* C6 witness: a call ended after three provider calls, the third of which
\* timed out.
C6_Witness ==
  \E c \in DOMAIN calls :
    /\ calls[c].pc = "done"
    /\ calls[c].providerCalls = 3
    /\ ~calls[c].replied
    /\ calls[c].caught = "Request timeout"

\* position of the first occurrence of stage in the trace, 0 when absent
FirstAt(trace, stage) ==
  IF stage \in Range(trace)
  THEN CHOOSE i \in 1..Len(trace) :
         trace[i] = stage /\ \A j \in 1..(i - 1) : trace[j] # stage
  ELSE 0

\* C7: in both AI entry points a provider call is made only after the
\* request has passed validation, the cache check, the rate-limit gate and
\* the prompt build, in this order.
C7_StagesInOrder ==
  \A c \in DOMAIN calls :
    "call" \in Range(calls[c].trace) =>
      /\ 0 < FirstAt(calls[c].trace, "validate")
      /\ FirstAt(calls[c].trace, "validate") < FirstAt(calls[c].trace, "cache")
      /\ FirstAt(calls[c].trace, "cache") < FirstAt(calls[c].trace, "gate")
      /\ FirstAt(calls[c].trace, "gate") < FirstAt(calls[c].trace, "prompt")
      /\ FirstAt(calls[c].trace, "prompt") < FirstAt(calls[c].trace, "call")

\* C8: the overallScore of every report returned is the integer
\* round(100 * passed / total) over the report's own results, between 0 and
\* 100, and 0 when the report has no results.
C8_ScoreFormula ==
  \A c \in DOMAIN calls :
    calls[c].outcome = "returned" =>
      LET results == calls[c].report.results
          score == calls[c].report.overallScore
      IN /\ score \in 0..100
         /\ score = IF Len(results) = 0 THEN 0
                    ELSE (200 * passedCount(results) + Len(results))
                           \div (2 * Len(results))

\* C9: a report returned by the AI path has exactly one result per
\* requirement supplied.
C9_OneResultPerRequirement ==
  \A c \in DOMAIN calls :
    (calls[c].outcome = "returned" /\ calls[c].report.aiPowered) =>
      /\ Len(calls[c].report.results) = Len(calls[c].requirements)
      /\ \A i \in 1..Len(calls[c].requirements) :
           Cardinality({j \in 1..Len(calls[c].report.results) :
             calls[c].report.results[j].requirement = calls[c].requirements[i]}) = 1

\* C10: the number of entries physically held never exceeds maxSize.
C10_CacheSizeBounded == Len(cache) <= maxSize

\* the last cache operation was a set on a cache at capacity
SetAtCapacity == lastOp.op = "set" /\ Len(lastOp.before) >= maxSize

\* C11: a set on a cache at capacity first evicts exactly one entry, one
\* whose lastAccessed is minimal among all entries, and then stores the new
\* entry.
C11_EvictsLeastRecentlyAccessed ==
  SetAtCapacity =>
    \E i \in 1..Len(lastOp.before) :
      /\ \A j \in 1..Len(lastOp.before) :
           lastOp.before[i].lastAccessed <= lastOp.before[j].lastAccessed
      /\ cache = MapSet(Delete(lastOp.before, lastOp.before[i].key),
                        cache[IndexOfKey(cache, lastOp.key)])

\* the position in the Map before the last operation of an entry for its key
\* that was not expired when the operation ran
LiveBefore ==
  {i \in 1..Len(lastOp.before) :
     /\ lastOp.before[i].key = lastOp.key
     /\ lastOp.at <= lastOp.before[i].expiresAt}

\* C12: get returns the stored value exactly when an entry for the key
\* exists and now <= expiresAt, where expiresAt is the time of the set plus
\* the ttl; a hit sets lastAccessed to now and changes nothing else; any
\* other get returns null and leaves the Map without an entry for the key.
C12_GetSemantics ==
  /\ \A i \in 1..Len(cache) : cache[i].expiresAt = cache[i].createdAt + ttlMs
  /\ lastOp.op = "get" =>
       IF LiveBefore # {}
       THEN \E i \in LiveBefore :
              /\ lastOp.value = [hit |-> TRUE, data |-> lastOp.before[i].data]
              /\ cache = [lastOp.before EXCEPT ![i].lastAccessed = lastOp.at]
       ELSE /\ lastOp.value = [hit |-> FALSE]
            /\ cache = SelectSeq(lastOp.before, LAMBDA e : e.key # lastOp.key)

\* C12 witness: a get found its entry expired and removed it, leaving
\* another entry in place.
C12_Witness ==
  /\ lastOp.op = "get"
  /\ \E i \in 1..Len(lastOp.before) :
       /\ lastOp.before[i].key = lastOp.key
       /\ lastOp.at > lastOp.before[i].expiresAt
  /\ lastOp.value = [hit |-> FALSE]
  /\ Len(lastOp.before) = 2
  /\ Len(cache) = 1

\* provider errors that another attempt cannot cure
PermanentErrors == {"invalid_api_key"}

\* C13: a permanent provider error is not retried: the failure ends the
\* attempts and the call goes to its catch block at once; a response that
\* fails parsing or schema validation ends the attempts too.
C13_PermanentErrorsNotRetried ==
  \A c \in DOMAIN calls :
    /\ calls[c].lastFailure \in PermanentErrors =>
         /\ calls[c].pc = "done"
         /\ calls[c].caught = calls[c].lastFailure
    /\ calls[c].replied => calls[c].pc = "done"

\* C14: a call ends on an empty, non-JSON or schema-invalid response only
\* after the model call has been made again.
C14_BadResponseRetried ==
  \A c \in DOMAIN calls :
    (/\ calls[c].pc = "done"
     /\ calls[c].replied
     /\ calls[c].caught \in {"No response content from OpenAI", "SyntaxError", "ZodError"})
    => calls[c].providerCalls > 1

\* 2^n
RECURSIVE Pow2(_)
Pow2(n) == IF n = 0 THEN 1 ELSE 2 * Pow2(n - 1)

\* the smaller of two numbers
Min(a, b) == IF a < b THEN a ELSE b

\* C15: after failed attempt k the retry waits min(1000 * 2^(k-1), 10000) ms
\* for a provider rate-limit error and 1000 * k ms for any other failure,
\* k in {1, 2}; the final failed attempt is followed by no delay.
C15_BackoffDelays ==
  \A c \in DOMAIN calls :
    /\ calls[c].pc = "backoff" =>
         /\ calls[c].attempt \in {1, 2}
         /\ calls[c].wakeAt - calls[c].failedAt =
              IF calls[c].lastFailure = "rate_limit_exceeded"
              THEN Min(1000 * Pow2(calls[c].attempt - 1), 10000)
              ELSE 1000 * calls[c].attempt
    /\ (calls[c].pc = "done" /\ ~calls[c].replied /\ calls[c].lastFailure # "")
         => calls[c].endTime = calls[c].failedAt

\* C15 witness: a call waits after its second attempt failed with a provider
\* rate-limit error, the first having timed out.
C15_Witness ==
  \E c \in DOMAIN calls :
    /\ calls[c].pc = "backoff"
    /\ calls[c].attempt = 2
    /\ calls[c].lastFailure = "rate_limit_exceeded"
    /\ calls[c].failedAt > 30000
    /\ calls[c].wakeAt = calls[c].failedAt + 2000

\* C16: with fallback disabled, a failure in analyzeContent rejects with the
\* message 'AI analysis failed: ' followed by the message of the failure,
\* returns no report and stores no cache entry.
C16_DisabledFallbackRejects ==
  \A c \in DOMAIN calls :
    (/\ calls[c].entry = "analyzeContent"
     /\ ~calls[c].fallbackToRulesBased
     /\ calls[c].pc = "done"
     /\ calls[c].caught # "")
    => /\ calls[c].outcome = "rejected"
       /\ calls[c].error = "AI analysis failed: " \o calls[c].caught
       /\ calls[c].report = NoReport
       /\ calls[c].stored = <<>>
       /\ \A i \in 1..Len(cache) :
            cache[i].key = calls[c].cacheKey => cache[i].createdAt < calls[c].startTime

\* C16 witness: with fallback disabled a call was rejected after its
\* response failed schema validation.
C16_Witness ==
  \E c \in DOMAIN calls :
    /\ calls[c].entry = "analyzeContent"
    /\ ~calls[c].fallbackToRulesBased
    /\ calls[c].pc = "done"
    /\ calls[c].replied
    /\ calls[c].caught = "ZodError"
    /\ calls[c].error = "AI analysis failed: ZodError"


\* C17: a finished call leaves the caller's arrays as they were passed: the
\* requirements and the hashtags of the post are in the order the caller
\* gave them
C17_ArgumentsKeepOrder ==
  \A c \in DOMAIN calls :
    (/\ calls[c].pc = "done"
     /\ ~calls[c].postNull
     /\ ~calls[c].reqsNull)
    => /\ calls[c].requirements = calls[c].given[1].requirements
       /\ calls[c].postData.hashtags = calls[c].given[1].postData.hashtags


\* C18: a write by a caller to a report it was handed leaves the cache as it
\* is, so that a later hit returns what was stored
C18_CacheNotAliased ==
  [][(\E c \in DOMAIN calls : ~calls[c].mutated /\ calls'[c].mutated)
       => cache' = cache]_vars


\* C19: whatever the callback does, a call of analyzeContentWithAIProgress
\* ends as it does with a callback that does nothing: it returns the cached
\* report when it found one, it returns the report it stored when the
\* provider's response was valid, and it never ends on the callback's error
C19_CallbackObservational ==
  \A c \in DOMAIN calls :
    (calls[c].entry = "analyzeContentWithAIProgress" /\ calls[c].pc = "done") =>
      /\ calls[c].caught # CallbackError
      /\ calls[c].error # CallbackError
      /\ calls[c].live # <<>> =>
           /\ calls[c].outcome = "returned"
           /\ calls[c].report.results = calls[c].live[1].results
           /\ calls[c].report.model = calls[c].live[1].model
      /\ calls[c].stored # <<>> =>
           /\ calls[c].outcome = "returned"
           /\ calls[c].report = calls[c].stored[1]


\* the line holds nothing but white space
Blank(s) == \A i \in 1..Len(s) : IsSpace(CharAt(s, i))

\* the lines that are not blank, in the order given
RECURSIVE NonBlank(_)
NonBlank(requirements) ==
  IF requirements = <<>> THEN <<>>
  ELSE (IF Blank(Head(requirements)) THEN <<>> ELSE <<Head(requirements)>>)
       \o NonBlank(Tail(requirements))

\* t is the line r without the white space around it
IsTrimOf(t, r) ==
  \E i \in 1..Len(r) : \E j \in i..Len(r) :
    /\ t = SubSeq(r, i, j)
    /\ ~IsSpace(CharAt(r, i))
    /\ ~IsSpace(CharAt(r, j))
    /\ \A k \in 1..(i - 1) : IsSpace(CharAt(r, k))
    /\ \A k \in (j + 1)..Len(r) : IsSpace(CharAt(r, k))

\* C20: the rule-based analyzeContent returns one result per requirement that
\* is not blank, in the order given, each naming the requirement without the
\* white space around it, and scores over these results only
C20_OneResultPerNonBlank ==
  ruleOut # <<>> =>
    /\ Len(ruleOut[1].results) = Len(NonBlank(ruleArgs.requirements))
    /\ \A i \in 1..Len(ruleOut[1].results) :
         IsTrimOf(ruleOut[1].results[i].requirement,
                  NonBlank(ruleArgs.requirements)[i])
    /\ ruleOut[1].overallScore =
         IF Len(NonBlank(ruleArgs.requirements)) = 0 THEN 0
         ELSE (200 * passedCount(ruleOut[1].results)
                 + Len(NonBlank(ruleArgs.requirements)))
              \div (2 * Len(NonBlank(ruleArgs.requirements)))

\* C20 witness: of a blank line, a padded line that passes and a line that
\* fails, two results are returned and the score is 50
C20_Witness ==
  /\ ruleOut # <<>>
  /\ ruleArgs.requirements = <<"  ", " #ad ", "b">>
  /\ Len(ruleOut[1].results) = 2
  /\ ruleOut[1].results[1].requirement = "#ad"
  /\ ruleOut[1].results[1].passed
  /\ ruleOut[1].results[2].requirement = "b"
  /\ ~ruleOut[1].results[2].passed
  /\ ruleOut[1].overallScore = 50


\* the categories of requirement, highest priority first
Priority ==
  <<"hashtag", "aboveFold", "transcript", "firstSeconds", "caption", "general">>

\* the lower-cased requirement belongs to the category
Matches(category, lowerReq) ==
  CASE category = "hashtag" ->
         includes(lowerReq, "#") \/ includes(lowerReq, "hashtag")
    [] category = "aboveFold" ->
         includes(lowerReq, "above the fold") \/ includes(lowerReq, "beginning")
    [] category = "transcript" ->
         \E w \in {"mention", "says", "audio", "speak"} : includes(lowerReq, w)
    [] category = "firstSeconds" ->
         /\ includes(lowerReq, "first")
         /\ \E w \in {"second", "10"} : includes(lowerReq, w)
    [] category = "caption" ->
         \E w \in {"caption", "description", "text"} : includes(lowerReq, w)
    [] OTHER -> TRUE

\* the categories the requirement belongs to
Categories(lowerReq) == {i \in DOMAIN Priority : Matches(Priority[i], lowerReq)}

\* the category of highest priority among them
FirstCategory(lowerReq) ==
  Priority[CHOOSE i \in Categories(lowerReq) : \A j \in Categories(lowerReq) : i <= j]

\* the result of the check of the category alone
CheckAlone(category, postData, requirement) ==
  CASE category = "hashtag" ->
         checkHashtagRequirement(postData.caption, requirement, toLowerCase(requirement))
    [] category = "aboveFold" ->
         checkAboveFoldRequirement(postData.caption, requirement, toLowerCase(requirement))
    [] category = "transcript" ->
         checkTranscriptRequirement(postData.transcript, requirement, toLowerCase(requirement))
    [] category = "firstSeconds" ->
         checkFirstSecondsRequirement(postData.transcript, requirement, toLowerCase(requirement))
    [] category = "caption" ->
         checkCaptionRequirement(postData.caption, requirement, toLowerCase(requirement))
    [] OTHER ->
         checkGeneralRequirement(postData.caption, postData.transcript, requirement,
                                 toLowerCase(requirement))

HashtagAboveFold(requirement) ==
  /\ matchHashtag(requirement) # ""
  /\ \/ includes(toLowerCase(requirement), "above the fold")
     \/ includes(toLowerCase(requirement), "beginning")

\* the tag occurs in the text, whatever the case, at positions i..j with
\* j <= limit
OccursWithin(text, tag, limit) ==
  \E i \in 1..Len(text) :
    /\ i + Len(tag) - 1 <= limit
    /\ i + Len(tag) - 1 <= Len(text)
    /\ toLowerCase(SubSeq(text, i, i + Len(tag) - 1)) = toLowerCase(tag)

\* C22: a requirement that names a hashtag and asks for it above the fold
\* passes exactly when the hashtag lies within the first 150 characters of
\* the caption, and its explanation names that window
C22_HashtagAboveFold ==
  ruleOut # <<>> =>
    \A i \in 1..Len(ruleOut[1].results) :
      HashtagAboveFold(ruleOut[1].results[i].requirement) =>
        /\ ruleOut[1].results[i].passed
             <=> OccursWithin(ruleArgs.postData.caption,
                              matchHashtag(ruleOut[1].results[i].requirement), 150)
        /\ includes(ruleOut[1].results[i].explanation, "first 150 characters")

\* C22 witness: a hashtag that begins inside the first 150 characters and
\* ends after them has failed
C22_Witness ==
  /\ ruleOut # <<>>
  /\ ruleArgs.requirements = <<"#ad must be above the fold">>
  /\ ruleArgs.postData.caption = Repeat("x", 148) \o "#ad"
  /\ ~ruleOut[1].results[1].passed
  /\ ruleOut[1].results[1].explanation =
       "Fail: '#ad' not found in the first 150 characters."


\* the requirement asks about the first 10 seconds
AsksFirstSeconds(requirement) ==
  /\ includes(toLowerCase(requirement), "first")
  /\ \/ includes(toLowerCase(requirement), "second")
     \/ includes(toLowerCase(requirement), "10")

\* the words of the transcript from the 51st on hold some keyword of the
\* requirement and the first 50 words hold none
OnlyAfterFiftyWords(transcript, requirement) ==
  /\ someKeywordIn(extractKeywords(toLowerCase(requirement)), toLowerCase(transcript))
  /\ ~someKeywordIn(extractKeywords(toLowerCase(requirement)),
                    toLowerCase(firstWordsText(transcript, 1, 50)))

\* C23: a requirement that asks about the first 10 seconds fails when its
\* keywords are said only after the 50th word of the transcript
C23_FirstSecondsWindow ==
  ruleOut # <<>> =>
    \A i \in 1..Len(ruleOut[1].results) :
      (/\ AsksFirstSeconds(ruleOut[1].results[i].requirement)
       /\ OnlyAfterFiftyWords(ruleArgs.postData.transcript,
                              ruleOut[1].results[i].requirement))
      => ~ruleOut[1].results[i].passed


\* the check of the requirement searches for its keywords: every check but
\* that of a hashtag named in the requirement
KeywordBased(requirement) ==
  \/ FirstCategory(toLowerCase(requirement)) # "hashtag"
  \/ matchHashtag(requirement) = ""

\* the texts the check of the category searches
Windows(category, postData) ==
  CASE category \in {"hashtag", "caption"} -> {postData.caption}
    [] category = "aboveFold" ->
         {SubSeq(postData.caption, 1,
                 IF Len(postData.caption) < 150 THEN Len(postData.caption) ELSE 150)}
    [] category = "transcript" -> {postData.transcript}
    [] category = "firstSeconds" -> {firstWordsText(postData.transcript, 1, 50)}
    [] OTHER -> {postData.caption, postData.transcript}

\* some keyword of the requirement is part of some text searched, whatever
\* the case of the text
KeywordFound(postData, requirement) ==
  \E w \in Windows(FirstCategory(toLowerCase(requirement)), postData) :
    \E k \in Range(extractKeywords(toLowerCase(requirement))) :
      includes(toLowerCase(w), k)

\* C24: a check that searches for keywords passes exactly when one of the
\* keywords of the requirement is part of the text it searches; a requirement
\* without keywords fails
C24_AnyKeywordPasses ==
  ruleOut # <<>> =>
    \A i \in 1..Len(ruleOut[1].results) :
      KeywordBased(ruleOut[1].results[i].requirement) =>
        /\ ruleOut[1].results[i].passed
             <=> KeywordFound(ruleArgs.postData, ruleOut[1].results[i].requirement)
        /\ extractKeywords(toLowerCase(ruleOut[1].results[i].requirement)) = <<>>
             => ~ruleOut[1].results[i].passed

\* C24 witness: a requirement with one keyword in the caption and one that is
\* not has passed
C24_Witness ==
  /\ ruleOut # <<>>
  /\ ruleArgs.requirements = <<"Caption contains Sneak Peek">>
  /\ ruleArgs.postData.caption = "Sneak Eats text"
  /\ extractKeywords(toLowerCase(ruleArgs.requirements[1])) = <<"sneak", "peek">>
  /\ ruleOut[1].results[1].passed


\* position of the first occurrence of sub in s, 0 when there is none
FirstIndex(s, sub) ==
  LET at == {i \in 1..(Len(s) - Len(sub) + 1) : SubSeq(s, i, i + Len(sub) - 1) = sub}
  IN IF at = {} THEN 0 ELSE CHOOSE i \in at : \A j \in at : i <= j

\* the transcript section of a prompt: from its heading to the blank line
\* before the media type
Section(prompt) ==
  SubSeq(prompt, FirstIndex(prompt, "**TRANSCRIPT"),
         FirstIndex(prompt, "\n\n**MEDIA TYPE:**") - 1)

\* a number written with two digits at least
TwoDigits(n) == IF n < 10 THEN "0" \o digitsOf(n) ELSE digitsOf(n)

\* minutes and seconds of a time given in tenths of a second
Clock(tenths) == TwoDigits(tenths \div 600) \o ":" \o TwoDigits((tenths % 600) \div 10)

\* the lines of the segments from the i-th on, each ended by a line break
RECURSIVE SegmentLines(_, _)
SegmentLines(segments, i) ==
  IF i > Len(segments) THEN ""
  ELSE "[" \o Clock(segments[i].start) \o "-" \o Clock(segments[i].end) \o "]: "
         \o trim(segments[i].text) \o (IF i < Len(segments) THEN "\n" ELSE "")
         \o SegmentLines(segments, i + 1)

\* the post carries a transcript with segments
HasSegments(postData) ==
  /\ postData.timestampedTranscript # <<>>
  /\ postData.timestampedTranscript[1].segments # <<>>

\* the transcript as the prompt shows it
ShownTranscript(postData) ==
  IF postData.transcript = "" THEN "No transcript available" ELSE postData.transcript

\* C25: the transcript section of the user prompt is the fixed line for an
\* image post, whatever transcript the post carries; the heading with
\* timestamps, one line per segment in order and the flat transcript for a
\* video post with segments; the transcript alone, with no heading with
\* timestamps and no time marker, for a video post without segments
C25_TranscriptSectionForms ==
  promptOut.prompt # <<>> =>
    IF promptArgs.postData.mediaType # "video"
    THEN Section(promptOut.prompt[1]) =
           "**TRANSCRIPT:** Not applicable for image content"
    ELSE IF HasSegments(promptArgs.postData)
    THEN Section(promptOut.prompt[1]) =
           "**TRANSCRIPT (with timestamps):**\n"
             \o SegmentLines(promptArgs.postData.timestampedTranscript[1].segments[1], 1)
             \o "\n\n**Full transcript text:** "
             \o ShownTranscript(promptArgs.postData)
    ELSE /\ Section(promptOut.prompt[1]) =
              "**TRANSCRIPT:**\n" \o ShownTranscript(promptArgs.postData)
         /\ ~includes(Section(promptOut.prompt[1]), "(with timestamps)")
         /\ ~includes(Section(promptOut.prompt[1]), "[")

\* C25 witness: the prompt of an image post that carries a transcript with
\* two segments has the fixed line for its transcript section
C25_Witness ==
  /\ promptOut.prompt # <<>>
  /\ promptArgs.postData.mediaType = "image"
  /\ promptArgs.postData.transcript = "hi there"
  /\ HasSegments(promptArgs.postData)
  /\ Len(promptArgs.postData.timestampedTranscript[1].segments[1]) = 2
  /\ Section(promptOut.prompt[1]) = "**TRANSCRIPT:** Not applicable for image content"
  /\ ~includes(promptOut.prompt[1], "(with timestamps)")
  /\ ~includes(promptOut.prompt[1], "hi there")

\* C26: formatTime writes the whole minutes and the whole seconds of the
\* minute, each with two digits at least, joined by a colon; the minutes are
\* not wrapped at 60 and the seconds are between 00 and 59
C26_FormatTime ==
  promptOut.time # <<>> =>
    /\ promptOut.time[1] = Clock(promptArgs.seconds)
    /\ promptArgs.seconds = 0 => promptOut.time[1] = "00:00"
    /\ promptArgs.seconds = 750 => promptOut.time[1] = "01:15"
    /\ promptArgs.seconds = 36610 => promptOut.time[1] = "61:01"
    /\ Len(promptOut.time[1]) >= 5
    /\ SubSeq(promptOut.time[1], Len(promptOut.time[1]) - 2,
              Len(promptOut.time[1]) - 2) = ":"
    /\ InStr("012345", CharAt(promptOut.time[1], Len(promptOut.time[1]) - 1))
    /\ InStr(DigitChars, CharAt(promptOut.time[1], Len(promptOut.time[1])))

\* C26 witness: 3661 seconds are written as 61 minutes and 1 second
C26_Witness ==
  /\ promptOut.time = <<"61:01">>
  /\ promptArgs.seconds = 36610


\* the fetch has gone through its download of the video
Downloaded(f) == f.pc = "done" /\ f.downloads # <<>>

\* C29: in both entry points the video URL is fetched at most 5 times and
\* no fetch follows one that succeeded; the proxy is fetched only after 5
\* failed fetches of the video URL, at most 5 times, and gives up only after
\* 5; when the video URL fails 4 times and then succeeds, the fetch ends
\* after exactly 5 downloads, none of them by proxy, with a post whose
\* transcript is not empty
C29_FiveDirectAttempts ==
  fetcher # NoFetch =>
    LET d == fetcher.downloads
        direct == Fetches(d, "direct")
        proxy == Fetches(d, "proxy")
    IN /\ direct <= 5
       /\ proxy <= 5
       /\ \A i \in 1..Len(d) : d[i].ok => i = Len(d)
       /\ proxy > 0 => direct = 5
       /\ (Downloaded(fetcher) /\ proxy > 0 /\ ~d[Len(d)].ok) => proxy = 5
       /\ (Downloaded(fetcher) /\ fetcher.directFails = 4) =>
            /\ Len(d) = 5
            /\ proxy = 0
            /\ fetcher.outcome = "resolved"
            /\ fetcher.post.transcript # ""

\* every fetch of the video fails, by the direct path and by the proxy
AlwaysFails(f) ==
  /\ f.directFails = MaxFails
  /\ f.proxyUrl => f.proxyFails = MaxFails

\* C30: when every download of the video fails, getInstagramPostData makes
\* exactly 5 downloads and rejects with an error that says 'Failed to
\* download video for transcription'
C30_DownloadFailureRejects ==
  (/\ fetcher # NoFetch
   /\ fetcher.entry = "getInstagramPostData"
   /\ Downloaded(fetcher)
   /\ AlwaysFails(fetcher)) =>
    /\ Len(fetcher.downloads) = 5
    /\ fetcher.outcome = "rejected"
    /\ includes(fetcher.error, "Failed to download video for transcription")


\* the fields of a report of the AI analysis
ReportFields == {"results", "overallScore", "aiPowered", "processingTime", "model"}

\* the route has answered with a report
Answered ==
  /\ facade # NoFacade
  /\ facade.response # <<>>
  /\ facade.response[1].ok

\* the body asks for the AI analysis: useAI is true or absent
AsksForAI == facade.body.useAI \in {"true", "undefined"}

\* the function of the AI service the route calls
AICallOf(route) ==
  IF route = "analyze" THEN "analyzeContent" ELSE "analyzeContentWithAIProgress"

C28_MissingKeyFallsBack ==
  (facade # NoFacade /\ ~fetcher.openaiKey /\ AsksForAI) =>
    /\ calls[1] = IdleCall
    /\ (facade.response # <<>> /\ fetcher.outcome = "resolved") =>
         /\ facade.thrown = <<"OPENAI_API_KEY environment variable is required">>
         /\ facade.response[1].ok
         /\ facade.response[1].analysis[1].aiPowered = FALSE
         /\ facade.response[1].analysis[1].model = "rule-based-fallback"

\* the streaming route has answered a request with useAI true for a video
\* post, without the key
C28_Witness ==
  /\ Answered
  /\ facade.route = "analyze-stream"
  /\ facade.body.useAI = "true"
  /\ ~fetcher.openaiKey
  /\ fetcher.apifyKey
  /\ fetcher.post.mediaType = "video"
  /\ facade.response[1].analysis[1].model = "rule-based-fallback"


\* the parts of s between the separators
RECURSIVE Split(_, _)
Split(s, separator) ==
  IF \E i \in 1..Len(s) : CharAt(s, i) = separator
  THEN LET i == CHOOSE j \in 1..Len(s) :
                  /\ CharAt(s, j) = separator
                  /\ \A k \in 1..(j - 1) : CharAt(s, k) # separator
       IN <<SubSeq(s, 1, i - 1)>> \o Split(Drop(s, i), separator)
  ELSE <<s>>

\* the URL begins with http:// or https:// and something follows
IsWebUrl(url) ==
  \E scheme \in {"http://", "https://"} :
    StartsWith(url, scheme) /\ Len(url) > Len(scheme)

\* the parts of a web URL: its host, then the segments of its path, a
\* trailing slash dropped
UrlParts(url) ==
  LET parts == Split(Drop(url, IF StartsWith(url, "https://") THEN 8 ELSE 7), "/")
  IN IF Len(parts) > 1 /\ parts[Len(parts)] = ""
     THEN SubSeq(parts, 1, Len(parts) - 1)
     ELSE parts

\* a shortcode or a user name: letters, digits, '_', '-', and '.' in names
IsName(s, dots) ==
  /\ Len(s) > 0
  /\ \A i \in 1..Len(s) :
       IsCodeChar(CharAt(s, i)) \/ (dots /\ CharAt(s, i) = ".")

InstagramHosts == {"instagram.com", "www.instagram.com"}

\* the URL has one of the shapes /p/<code>, /reel/<code>, /<username>/reel/<code>
PostShape(url) ==
  /\ IsWebUrl(url)
  /\ LET parts == UrlParts(url)
     IN /\ parts[1] \in InstagramHosts
        /\ \/ /\ Len(parts) = 3
              /\ parts[2] \in {"p", "reel"}
              /\ IsName(parts[3], FALSE)
           \/ /\ Len(parts) = 4
              /\ IsName(parts[2], TRUE)
              /\ parts[3] = "reel"
              /\ IsName(parts[4], FALSE)

\* the URL is a profile or story URL, has another host, has no shortcode
\* after /p/ or /reel/, or is no URL at all
OtherShape(url) ==
  \/ ~IsWebUrl(url)
  \/ LET parts == UrlParts(url)
     IN \/ parts[1] \notin InstagramHosts
        \/ Len(parts) = 2
        \/ Len(parts) >= 3 /\ parts[2] = "stories"
        \/ Len(parts) = 3 /\ parts[2] \notin {"p", "reel"}

\* the entry point has let the URL of its call pass
UrlAccepted ==
  /\ fetcher # NoFetch
  /\ fetcher.pc # "start"
  /\ ~(fetcher.outcome = "rejected"
       /\ StartsWith(fetcher.error, "Invalid Instagram URL"))

\* C33: a URL of the shapes /p/<code>, /reel/<code> and
\* /<username>/reel/<code> on instagram.com, with http or https, with or
\* without www and a trailing slash, is accepted; a profile URL, a story URL,
\* a URL of another host or without a shortcode, and text that is no URL are
\* rejected
C33_UrlShapes ==
  (fetcher # NoFetch /\ fetcher.pc # "start") =>
    /\ PostShape(fetcher.url) => UrlAccepted
    /\ OtherShape(fetcher.url) => ~UrlAccepted

\* the failure the request of the fetch runs into: an invalid URL, or one
\* of the scraper's failures; "none" otherwise
FailureOf(f) ==
  IF OtherShape(f.url) THEN "invalidUrl"
  ELSE IF f.apifyKey /\ f.scrape \in {"empty", "quota", "unauthorized", "timeout"}
  THEN f.scrape
  ELSE "none"

\* C32: getInstagramPostData fails on an invalid URL, on a post not found or
\* private (no items), on an exceeded quota, on an auth failure and on a
\* timeout, with an error that tells which of them happened, and resolves
\* with the mock post in none of these cases
C32_FailuresRejectDistinctly ==
  (/\ fetcher # NoFetch
   /\ fetcher.entry = "getInstagramPostData"
   /\ fetcher.pc = "done"
   /\ FailureOf(fetcher) # "none") =>
    /\ fetcher.outcome = "rejected"
    /\ fetcher.post # getMockData
    /\ \A s \in {"quota", "unauthorized", "timeout"} \ {FailureOf(fetcher)} :
         fetcher.error # scrapeCatch(ScrapeErrors[s])[1]
    /\ FailureOf(fetcher) # "invalidUrl" =>
         ~StartsWith(fetcher.error, "Invalid Instagram URL")

\* the transcription of the video has failed during the fetch: the scraper
\* has delivered the post, and getVideoTranscript has thrown
TranscriptionFailed(f) ==
  /\ f.pc = "done"
  /\ f.outcome = "resolved"
  /\ f.apifyKey
  /\ f.scrape \in DOMAIN ApifyItems
  /\ mediaTypeOf(f.data) = "video"
  /\ \/ ~f.openaiKey
     \/ \A i \in 1..Len(f.downloads) : ~f.downloads[i].ok
     \/ f.whisper # "text"

\* requirements about what is said in the video
AudioRequirements ==
  {"Mention Instagram in the audio", "Say 'please try' in the video"}

\* C40: when the transcription of the video fails during the fetch, the post
\* returned has an empty transcript and no timestampedTranscript, and no
\* rule-based audio requirement passes on it
C40_FailedTranscriptIsEmpty ==
  (fetcher # NoFetch /\ TranscriptionFailed(fetcher)) =>
    /\ fetcher.post.transcript = ""
    /\ fetcher.post.timestampedTranscript = <<>>
    /\ \A r \in AudioRequirements : ~checkRequirement(fetcher.post, r).passed

\* C31: whatever the outcome of a transcription (a download failing on any
\* attempt, also after the file was written and found empty; the proxy
\* failing; a file over 25MB; an error of the provider; success), no
\* temporary file of the call exists once the call has finished
C31_TempFileRemoved ==
  (fetcher # NoFetch /\ fetcher.pc = "done") => ~fetcher.file

\* the keys of the entries of a cache
KeysOf(c) == {c[i].key : i \in 1..Len(c)}

\* the last operation was a set on a key that was present
SetOnPresentKey ==
  /\ lastOp.op = "set"
  /\ lastOp.key \in KeysOf(lastOp.before)

\* C37: set on a key that is already present replaces the entry of that key
\* only: no other key leaves the cache, also at capacity, and the number of
\* entries stays the same
C37_SetReplacesOnly ==
  SetOnPresentKey =>
    /\ KeysOf(cache) = KeysOf(lastOp.before)
    /\ Len(cache) = Len(lastOp.before)

\* both requests have been keyed, and with the same cache key
SameCacheKey ==
  /\ keyArgs # NoKeyArgs
  /\ Len(keyOut.a) >= 1
  /\ Len(keyOut.b) >= 1
  /\ keyOut.a[1] = keyOut.b[1]

\* C36: two requests have the same cache key only if they give the same user
\* prompt: a post that differs from another in a field rendered into the
\* prompt, such as its timestampedTranscript segments, has another key and
\* so never receives the report cached for the other post
C36_SameKeySamePrompt ==
  SameCacheKey =>
    buildUserPrompt(keyArgs.a.postData, keyArgs.a.requirements)
      = buildUserPrompt(keyArgs.b.postData, keyArgs.b.requirements)

\* the call has looked up the cache and has ended with the rule-based
\* fallback report
EndedInFallback(call) ==
  /\ call.pc = "done"
  /\ call.outcome = "returned"
  /\ call.cacheKey # <<>>
  /\ ~call.report.aiPowered

\* every entry of the cache holds a report of the AI
OnlyAIReportsCached ==
  \A i \in 1..Len(cache) : cache[i].data.aiPowered

\* C35: only reports of the AI are cached: every entry of the cache holds a
\* report with aiPowered = true, and once a call has ended in the rule-based
\* fallback the cache holds no entry for its key, so that the next identical
\* call misses the cache and goes to the AI again
C35_FallbackNotCached ==
  /\ OnlyAIReportsCached
  /\ \A c \in DOMAIN calls :
       EndedInFallback(calls[c]) =>
         LiveData(cache, calls[c].cacheKey, now) = <<>>

\* the streaming route has ended its request
StreamEnded ==
  /\ facade # NoFacade
  /\ facade.route = "analyze-stream"
  /\ facade.response # <<>>

\* the terminal updates among the updates
Terminal(events) ==
  {i \in 1..Len(events) : events[i].step \in {"complete", "error"}}

\* C38: on every path of a request to the streaming route (rejected body,
\* failed fetch, AI failure with fallback, success) the stream is closed
\* exactly once, close is never invoked on a closed stream, and the last
\* update sent before the close is the one terminal update, complete or error
C38_StreamClosedOnce ==
  StreamEnded =>
    /\ facade.stream.closed
    /\ facade.stream.closes = 1
    /\ facade.stream.errors = <<>>
    /\ Terminal(facade.stream.events) = {Len(facade.stream.events)}

\* analyzePostStream has settled on a stream that delivered an error update
ClientSawError ==
  /\ facade # NoFacade
  /\ facade.client # NoClient
  /\ \E i \in 1..Len(facade.stream.events) : facade.stream.events[i].step = "error"

\* C39: when the stream delivers an update whose step is error,
\* analyzePostStream rejects with the error message of that update; it does
\* not resolve with undefined at the end of the stream
C39_ClientRejectsOnError ==
  ClientSawError =>
    /\ facade.client.outcome = "rejected"
    /\ \E i \in 1..Len(facade.stream.events) :
         /\ facade.stream.events[i].step = "error"
         /\ facade.client.error = facade.stream.events[i].error

\* the call of caller c is under way
InFlight(c) == calls[c].pc \notin {"idle", "done"}

\* the call of caller c has ended, and when it was suspended (in the gate or
\* in the retry loop) it has gone on to a provider call
Completed(c) ==
  /\ calls[c].pc = "done"
  /\ calls[c].wakeAt > 0 => calls[c].providerCalls > 0

\* C34: every analyzeContent call ends, with a report or an error: when the
\* timers fire and every provider call settles or is cut off by its timeout,
\* no call stays suspended in the rate-limit gate or in the retry loop for
\* ever, and a caller suspended on a saturated window goes on to its provider
\* call once the window has rolled over, and is not rejected
C34_EveryCallCompletes ==
  \A c \in 1..LiveCallers : InFlight(c) ~> Completed(c)

\* a call that has waited at the gate for the new window, has been admitted
\* in it, has failed an attempt and waited for the next, has ended
C34_Witness ==
  \E c \in 1..LiveCallers :
    /\ calls[c].pc = "done"
    /\ calls[c].startTime < rateWindowMs
    /\ calls[c].endTime >= rateWindowMs
    /\ calls[c].providerCalls >= 2
    /\ \E i \in 1..Len(admitLog) : admitLog[i] >= rateWindowMs

====
